---- MODULE Spec2Model ----
(***************************************************************************)
(* Byte-level model of the version 6 ".3zh" serializer of Cubzh Core        *)
(* (src/core/serialization_v6.c, src/core/serialization.c).                 *)
(*                                                                         *)
(* Buffers and streams are sequences of bytes (0..255).  Multi-byte        *)
(* integers are little-endian.  A float is represented by an integer       *)
(* value and stored as the 4 bytes of its two's complement pattern, so     *)
(* that memcpy round trips are exact and "value - start" is computed.      *)
(* Memory the code reads without having written it (unwritten malloc'd     *)
(* bytes, bytes past the end of a buffer) is drawn from the variable junk. *)
(* uint32_t values are plain integers: TLC's integers are 32-bit signed    *)
(* and an overflow stops the run, so every uint32_t value of a completed   *)
(* run is below 2^31 and no uint32_t operation has wrapped.  uint16_t and  *)
(* uint8_t values are reduced modulo their width.                          *)
(***************************************************************************)
EXTENDS Integers, Sequences, FiniteSets, TLC

VARIABLES
    pc,             \* position of the caller: save steps, then load steps
    scene,          \* the in-memory shape tree handed to the writer
    previewData,    \* preview bytes handed to the writer (<<>>: none)
    artistPalette,  \* artist palette handed to the writer, or NoPalette
    junk,           \* content of memory read before being written
    file,           \* hand-built input: [bytes, base] (base: reference stream)
    fault,          \* the operation the environment makes fail: [op, n]
    fw,             \* the file serialization_save_shape writes, and its locals
    sv,             \* locals of serialization_v6_save_shape_as_buffer
    ld,             \* locals of serialization_load_assets_v6 and its heap
    pv              \* locals of serialization_v6_get_preview_data

vars == <<pc, scene, previewData, artistPalette, junk, file, fault, fw, sv, ld, pv>>

-----------------------------------------------------------------------------
(* Program constants *)

P3S_CHUNK_ID_NONE == 0
P3S_CHUNK_ID_PREVIEW == 1
P3S_CHUNK_ID_PALETTE_LEGACY == 2
P3S_CHUNK_ID_SHAPE == 3
P3S_CHUNK_ID_SHAPE_SIZE == 4
P3S_CHUNK_ID_SHAPE_BLOCKS == 5
P3S_CHUNK_ID_SHAPE_POINT == 6
P3S_CHUNK_ID_SHAPE_BAKED_LIGHTING == 7
P3S_CHUNK_ID_SHAPE_POINT_ROTATION == 8
P3S_CHUNK_ID_PALETTE_ID == 15
P3S_CHUNK_ID_PALETTE == 16
P3S_CHUNK_ID_SHAPE_ID == 17
P3S_CHUNK_ID_SHAPE_NAME == 18
P3S_CHUNK_ID_SHAPE_PARENT_ID == 19
P3S_CHUNK_ID_SHAPE_TRANSFORM == 20
P3S_CHUNK_ID_SHAPE_PIVOT == 21
P3S_CHUNK_ID_SHAPE_PALETTE == 22
P3S_CHUNK_ID_OBJECT_COLLISION_BOX == 23
P3S_CHUNK_ID_OBJECT_IS_HIDDEN == 24
P3S_CHUNK_ID_MAX == 25

P3sCompressionMethod_ZIP == 1
P3sCompressionMethod_COUNT == 2

\* sizeof(uint32_t) + sizeof(uint8_t) + sizeof(uint32_t)
CHUNK_V6_HEADER_NO_ID_SIZE == 9
\* sizeof(uint8_t) + sizeof(uint32_t)
CHUNK_V6_HEADER_NO_ID_SKIP_SIZE == 5

\* serialization.h and the collaborators' headers
MAGIC_BYTES == <<67, 85, 66, 90, 72, 33>>
MAGIC_BYTES_SIZE == 6
SERIALIZATION_FILE_FORMAT_VERSION_SIZE == 4
SERIALIZATION_COMPRESSION_ALGO_SIZE == 1
SERIALIZATION_TOTAL_SIZE_SIZE == 4
SHAPE_COLOR_INDEX_AIR_BLOCK == 255
SHAPE_COLOR_INDEX_MAX_COUNT == 255
PALETTE_ID_CUSTOM == 0
PALETTE_ID_IOS_ITEM_EDITOR_LEGACY == 1
PALETTE_ID_2021 == 2
UINT8_MAX == 255

\* widths
TwoTo8 == 256
TwoTo16 == 65536
TwoTo24 == 16777216

-----------------------------------------------------------------------------
(* Typed little-endian writes and reads *)

U8(v) == << v % TwoTo8 >>
U16(v) == << v % TwoTo8, (v \div TwoTo8) % TwoTo8 >>
\* (floored division: a negative v yields its two's complement pattern)
U32(v) == << v % TwoTo8, (v \div TwoTo8) % TwoTo8,
             (v \div TwoTo16) % TwoTo8, (v \div TwoTo24) % TwoTo8 >>
\* a float: the 4 bytes of its bit pattern
F32(v) == U32(v)
Float3(f) == F32(f[1]) \o F32(f[2]) \o F32(f[3])

\* *(uint8_t *)(buf + off); a read past the end of the buffer yields junk
At(buf, off) == IF off >= 0 /\ off < Len(buf) THEN buf[off + 1] ELSE junk.fill
RdU16(buf, off) == At(buf, off) + TwoTo8 * At(buf, off + 1)
RdU32(buf, off) == At(buf, off) + TwoTo8 * At(buf, off + 1)
                   + TwoTo16 * At(buf, off + 2) + TwoTo24 * At(buf, off + 3)
RdF32(buf, off) ==
    LET top == At(buf, off + 3)
    IN  At(buf, off) + TwoTo8 * At(buf, off + 1) + TwoTo16 * At(buf, off + 2)
        + TwoTo24 * (IF top >= 128 THEN top - TwoTo8 ELSE top)
RdFloat3(buf, off) == << RdF32(buf, off), RdF32(buf, off + 4), RdF32(buf, off + 8) >>
\* memcpy(dst, buf + off, n)
RdBytes(buf, off, n) == [i \in 1..n |-> At(buf, off + i - 1)]

float3_zero == <<0, 0, 0>>

-----------------------------------------------------------------------------
(* The environment makes operation op fail for item n (a shape id, or 0):  *)
(* compress() not returning Z_OK, malloc() returning NULL, fwrite()        *)
(* writing nothing.                                                        *)

Fails(op, n) == fault.op = op /\ fault.n = n
NoFault == [op |-> "none", n |-> 0]

-----------------------------------------------------------------------------
(* zlib: compress() and uncompress().  The stored form differs from the    *)
(* payload (a header byte precedes it); uncompress rejects a stream whose  *)
(* header is wrong or whose content exceeds the destination length.        *)

ZLIB_HEADER == 120
compress(data) == <<ZLIB_HEADER>> \o data
compressBound(n) == n + 1
uncompress(stored, destLen) ==
    IF Len(stored) >= 1 /\ stored[1] = ZLIB_HEADER /\ Len(stored) - 1 <= destLen
    THEN [ok |-> TRUE, data |-> Tail(stored)]
    ELSE [ok |-> FALSE, data |-> <<>>]

-----------------------------------------------------------------------------
(* ColorPalette (collaborator).  An in-memory palette holds its entries    *)
(* and an order: order[i] is the entry serialized at position i.           *)

NoPalette == [colors |-> <<>>, emissive |-> <<>>, order |-> <<>>, none |-> TRUE]
MkPalette(colors, emissive, order) ==
    [colors |-> colors, emissive |-> emissive, order |-> order, none |-> FALSE]

color_palette_get_ordered_count(p) == Len(p.order) % TwoTo8
\* colors and emissive flags in serialized order, and the mapping from
\* in-memory color index (0-based) to serialized index (0-based)
color_palette_get_colors_as_array(p) ==
    [colors   |-> [i \in 1..Len(p.order) |-> p.colors[p.order[i]]],
     emissive |-> [i \in 1..Len(p.order) |-> p.emissive[p.order[i]]],
     mapping  |-> [e \in 0..(Len(p.colors) - 1) |->
                     IF \E i \in 1..Len(p.order) : p.order[i] = e + 1
                     THEN (CHOOSE i \in 1..Len(p.order) : p.order[i] = e + 1) - 1
                     ELSE SHAPE_COLOR_INDEX_AIR_BLOCK]]

RECURSIVE Flatten(_)
Flatten(ss) == IF ss = <<>> THEN <<>> ELSE Head(ss) \o Flatten(Tail(ss))

\* _chunk_v6_palette_create_and_write_uncompressed_buffer
PaletteUncompressedBuffer(p) ==
    LET arr == color_palette_get_colors_as_array(p)
        colorCount == color_palette_get_ordered_count(p)
    IN  [uncompressedSize |-> 1 + 4 * colorCount + colorCount,
         data |-> U8(colorCount)
                  \o Flatten([i \in 1..colorCount |-> U32(arr.colors[i])])
                  \o [i \in 1..colorCount |-> arr.emissive[i]],
         paletteMapping |-> arr.mapping]

\* _chunk_v6_palette_create_and_write_compressed_buffer
PaletteCompressed(uncompressedSize, compressedData) ==
    [ok |-> ~Fails("palette", 0), uncompressedSize |-> uncompressedSize,
     compressedSize |-> Len(compressedData), compressedData |-> compressedData]
PaletteCompress(u) == PaletteCompressed(u.uncompressedSize, compress(u.data))
PaletteCompressedBuffer(p) == PaletteCompress(PaletteUncompressedBuffer(p))

-----------------------------------------------------------------------------
(* The in-memory scene (collaborators Shape, Transform, RigidBody).        *)
(* scene = [nodes, children, palettes]: nodes[1] is the root shape,        *)
(* children[n] the child transforms of node n in iteration order; a node   *)
(* with isShape = FALSE is a transform that carries no shape.              *)
(* A shape: pal (index of its palette: pointer identity), start/bbSize     *)
(* (model AABB, end = start + bbSize, non inclusive), blocks (coordinates  *)
(* -> color index or AIR), name, local transform, pivot, pois/rots         *)
(* (sequences of [key, value] in iteration order), collider, hidden.       *)

shape_get_palette(shape) == shape.pal
shape_get_block(shape, x, y, z) == shape.blocks[<<x, y, z>>]
block_is_solid(block) == block # SHAPE_COLOR_INDEX_AIR_BLOCK
strlen(name) == Len(name)
CLAMP(v, lo, hi) == IF v < lo THEN lo ELSE IF v > hi THEN hi ELSE v

GLOBAL_LIGHTING_BAKE_WRITE_ENABLED == TRUE
GLOBAL_LIGHTING_BAKE_READ_ENABLED == TRUE
\* sizeof(VERTEX_LIGHT_STRUCT_T)
VERTEX_LIGHT_STRUCT_SIZE == 2

SubHeader(id, size) == U8(id) \o U32(size)

\* the x, y, z loop nest over [start, end): cell i (0-based) of the grid
CellCoords(start, size, i) ==
    << start[1] + (i \div (size[2] * size[3])),
       start[2] + ((i \div size[3]) % size[2]),
       start[3] + (i % size[3]) >>

\* one SHAPE_POINT / SHAPE_POINT_ROTATION sub-chunk
PointSubChunk(id, key, value) ==
    LET keyLen == CLAMP(strlen(key), 0, 255)
    IN  SubHeader(id, 1 + keyLen + 3 * 4)
        \o U8(keyLen) \o SubSeq(key, 1, keyLen) \o Float3(value)

PointsSize(points) ==
    LET RECURSIVE Sum(_)
        Sum(ps) == IF ps = <<>> THEN 0
                   ELSE 1 + CLAMP(strlen(Head(ps).key), 0, 255) + 3 * 4 + Sum(Tail(ps))
    IN  Sum(points)

\* the byte the block loop stores for one cell (lines 1659-1681)
BlockByteOf(block, paletteMapping, hasMapping) ==
    IF block_is_solid(block)
    THEN (IF hasMapping THEN paletteMapping[block] ELSE block)
    ELSE SHAPE_COLOR_INDEX_AIR_BLOCK
BlockByte(shape, paletteMapping, hasMapping, c) ==
    BlockByteOf(shape_get_block(shape, c[1], c[2], c[3]), paletteMapping, hasMapping)

\* float3 value - (float) start
Float3Sub(v, start) == << v[1] - start[1], v[2] - start[2], v[3] - start[3] >>

\* The trailing bytes of the malloc'd buffer that no sub-chunk writes.
Unwritten(n) == [i \in 1..n |-> IF i = 1 THEN junk.id ELSE junk.fill]
\* The same bytes in the buffer the file writer allocates for the same shape
\* (another malloc: its content is independent).
UnwrittenFile(n) == [i \in 1..n |-> junk.file]

\* lines 1440-1449: a palette is written for the root and for a shape whose
\* palette is not the shared one
ShapeWritesPalette(shape, shapeParentId, sharedPalette) ==
    shapeParentId = 0 \/ shape_get_palette(shape) # sharedPalette
NoPaletteBuffer == [uncompressedSize |-> 0, data |-> <<>>, paletteMapping |-> <<>>]
ShapePaletteBuffer(shape, writesPalette) ==
    IF writesPalette
    THEN PaletteUncompressedBuffer(scene.palettes[shape_get_palette(shape)])
    ELSE NoPaletteBuffer

BlockCount(shapeSize) == shapeSize[1] * shapeSize[2] * shapeSize[3]
HasLighting(shape) == GLOBAL_LIGHTING_BAKE_WRITE_ENABLED /\ shape.bakedLighting
NameLen(shape) == strlen(shape.name) % TwoTo8

\* lines 1500-1529: the size the buffer is allocated with
\* (subheaderSize = 1 + 4)
ShapeUncompressedSize(shape, shapeId, shapeParentId, shapePaletteSize) ==
    (1 + 4) + 3 * 2
    + (IF shapeId > 0 THEN (1 + 4) + 2 ELSE 0)
    + (IF shapeParentId > 0 THEN (1 + 4) + 2 + (1 + 4) + 36 ELSE 0)
    + (1 + 4) + 12 + (1 + 4) + BlockCount(shape.bbSize)
    + (IF shapePaletteSize > 0 THEN (1 + 4) + shapePaletteSize ELSE 0)
    + (IF shape.hasCollider THEN (1 + 4) + 12 * 2 ELSE 0)
    + (IF shape.hidden THEN (1 + 4) + 1 ELSE 0)
    + Len(shape.pois) * (1 + 4) + PointsSize(shape.pois)
    + Len(shape.rots) * (1 + 4) + PointsSize(shape.rots)
    + (IF HasLighting(shape)
       THEN (1 + 4) + BlockCount(shape.bbSize) * VERTEX_LIGHT_STRUCT_SIZE ELSE 0)
    + (IF NameLen(shape) > 0 THEN (1 + 4) + 1 + NameLen(shape) ELSE 0)

\* lines 1544-1601: SHAPE_SIZE, SHAPE_ID, SHAPE_PARENT_ID and SHAPE_TRANSFORM
ShapeHeadSubChunks(shape, shapeId, shapeParentId) ==
    SubHeader(P3S_CHUNK_ID_SHAPE_SIZE, 3 * 2)
    \o U16(shape.bbSize[1]) \o U16(shape.bbSize[2]) \o U16(shape.bbSize[3])
    \o (IF shapeId # 0
        THEN SubHeader(P3S_CHUNK_ID_SHAPE_ID, 2) \o U16(shapeId)
        ELSE <<>>)
    \o (IF shapeParentId # 0
        THEN SubHeader(P3S_CHUNK_ID_SHAPE_PARENT_ID, 2) \o U16(shapeParentId)
             \o SubHeader(P3S_CHUNK_ID_SHAPE_TRANSFORM, 36)
             \o Float3(shape.position) \o Float3(shape.rotation) \o Float3(shape.scale)
        ELSE <<>>)

\* lines 1602-1644: SHAPE_PIVOT, OBJECT_COLLISION_BOX, OBJECT_IS_HIDDEN
ShapePivotSubChunks(shape) ==
    SubHeader(P3S_CHUNK_ID_SHAPE_PIVOT, 12) \o Float3(Float3Sub(shape.pivot, shape.start))
    \o (IF shape.hasCollider
        THEN SubHeader(P3S_CHUNK_ID_OBJECT_COLLISION_BOX, 12 * 2)
             \o Float3(shape.colliderMin) \o Float3(shape.colliderMax)
        ELSE <<>>)
    \o (IF shape.hidden
        THEN SubHeader(P3S_CHUNK_ID_OBJECT_IS_HIDDEN, 1) \o U8(1)
        ELSE <<>>)

\* lines 1646-1681: SHAPE_PALETTE and SHAPE_BLOCKS
ShapeBlocksSubChunks(shape, writesPalette, pal) ==
    (IF pal.uncompressedSize > 0
     THEN SubHeader(P3S_CHUNK_ID_SHAPE_PALETTE, pal.uncompressedSize) \o pal.data
     ELSE <<>>)
    \o SubHeader(P3S_CHUNK_ID_SHAPE_BLOCKS, BlockCount(shape.bbSize))
    \o [i \in 1..BlockCount(shape.bbSize) |->
          BlockByte(shape, pal.paletteMapping, writesPalette,
                    CellCoords(shape.start, shape.bbSize, i - 1))]

\* lines 1683-1759: SHAPE_POINT (value - start) and SHAPE_POINT_ROTATION
ShapePointSubChunks(shape) ==
    Flatten([i \in 1..Len(shape.pois) |->
               PointSubChunk(P3S_CHUNK_ID_SHAPE_POINT, shape.pois[i].key,
                             Float3Sub(shape.pois[i].value, shape.start))])
    \o Flatten([i \in 1..Len(shape.rots) |->
                  PointSubChunk(P3S_CHUNK_ID_SHAPE_POINT_ROTATION, shape.rots[i].key,
                                shape.rots[i].value)])

\* lines 1761-1785: SHAPE_BAKED_LIGHTING and SHAPE_NAME (id, length, bytes)
ShapeTailSubChunks(shape) ==
    (IF HasLighting(shape)
     THEN SubHeader(P3S_CHUNK_ID_SHAPE_BAKED_LIGHTING,
                    BlockCount(shape.bbSize) * VERTEX_LIGHT_STRUCT_SIZE)
          \o [i \in 1..(BlockCount(shape.bbSize) * VERTEX_LIGHT_STRUCT_SIZE) |-> 0]
     ELSE <<>>)
    \o (IF NameLen(shape) > 0
        THEN U8(P3S_CHUNK_ID_SHAPE_NAME) \o U8(NameLen(shape))
             \o SubSeq(shape.name, 1, NameLen(shape))
        ELSE <<>>)

\* the allocated buffer: what was written, then what was left unwritten
\* (a write past the allocation is a heap overflow, kept visible)
ShapeBuffer(uncompressedSize, written) ==
    [ok |-> TRUE, uncompressedSize |-> uncompressedSize, written |-> Len(written),
     uncompressedData |-> IF Len(written) <= uncompressedSize
                          THEN written \o Unwritten(uncompressedSize - Len(written))
                          ELSE written]

ShapeBufferWithPalette(shape, shapeId, shapeParentId, writesPalette, pal) ==
    ShapeBuffer(ShapeUncompressedSize(shape, shapeId, shapeParentId, pal.uncompressedSize),
                ShapeHeadSubChunks(shape, shapeId, shapeParentId)
                \o ShapePivotSubChunks(shape)
                \o ShapeBlocksSubChunks(shape, writesPalette, pal)
                \o ShapePointSubChunks(shape)
                \o ShapeTailSubChunks(shape))

ShapeBufferPalette(shape, shapeId, shapeParentId, writesPalette) ==
    ShapeBufferWithPalette(shape, shapeId, shapeParentId, writesPalette,
                           ShapePaletteBuffer(shape, writesPalette))

\* chunk_v6_shape_create_and_write_uncompressed_buffer
ShapeUncompressedBuffer(shape, shapeId, shapeParentId, sharedPalette) ==
    ShapeBufferPalette(shape, shapeId, shapeParentId,
                       ShapeWritesPalette(shape, shapeParentId, sharedPalette))

\* chunk_v6_shape_create_and_write_compressed_buffer
\* (fails: compress() does not return Z_OK)
ShapeCompressed(u, c, fails) ==
    [ok |-> u.ok /\ ~fails, shapeUncompressedDataSize |-> u.uncompressedSize,
     shapeCompressedDataSize |-> Len(c), shapeCompressedData |-> c,
     written |-> u.written]
ShapeCompress(u, fails) ==
    ShapeCompressed(u, compress(SubSeq(u.uncompressedData, 1, u.uncompressedSize)), fails)
ShapeCompressedBuffer(shape, shapeId, shapeParentId, sharedPalette) ==
    ShapeCompress(ShapeUncompressedBuffer(shape, shapeId, shapeParentId, sharedPalette),
                  Fails("shape", shapeId))

\* getChunkHeaderSize
getChunkHeaderSize(chunkID) ==
    IF chunkID = P3S_CHUNK_ID_PREVIEW THEN 1 + 4
    ELSE IF chunkID \in {P3S_CHUNK_ID_PALETTE, P3S_CHUNK_ID_PALETTE_LEGACY,
                         P3S_CHUNK_ID_PALETTE_ID, P3S_CHUNK_ID_SHAPE}
         THEN 1 + 4 + 1 + 4
         ELSE 0
compute_preview_chunk_size(previewBytesCount) ==
    getChunkHeaderSize(P3S_CHUNK_ID_PREVIEW) + previewBytesCount
\* (the size of the payload alone)
ComputeShapeChunkSizeNoHeader(shapeBufferDataSize) == shapeBufferDataSize
compute_shape_chunk_size(shapeBufferDataSize) ==
    getChunkHeaderSize(P3S_CHUNK_ID_SHAPE) + shapeBufferDataSize

\* The id handed to the first child of a shape written as shapeId.
NextShapeIdStuck(shapeId) == shapeId
NextShapeId(shapeId) == (shapeId + 1) % TwoTo16

\* create_shape_buffers: acc = [ok, list, shapeId, size]; each list entry is a
\* ShapeBuffers struct (node: the in-memory shape it was built from).
PushShapeBuffers(acc, node, b) ==
    [ok |-> acc.ok /\ b.ok,
     list |-> Append(acc.list,
                     [shapeUncompressedDataSize |-> b.shapeUncompressedDataSize,
                      shapeCompressedDataSize |-> b.shapeCompressedDataSize,
                      shapeCompressedData |-> b.shapeCompressedData,
                      node |-> node]),
     shapeId |-> NextShapeId(acc.shapeId),
     size |-> acc.size + compute_shape_chunk_size(b.shapeCompressedDataSize)]

RECURSIVE create_shape_buffers(_, _, _, _)
RECURSIVE create_shape_buffers_children(_, _, _, _)
create_shape_buffers(acc, node, shapeParentId, sharedPalette) ==
    create_shape_buffers_children(
        PushShapeBuffers(acc, node,
                         ShapeCompressedBuffer(scene.nodes[node], acc.shapeId,
                                               shapeParentId, sharedPalette)),
        scene.children[node], acc.shapeId, sharedPalette)
create_shape_buffers_children(acc, kids, shapeParentId, sharedPalette) ==
    IF kids = <<>> \/ ~acc.ok THEN acc
    ELSE create_shape_buffers_children(
            IF scene.nodes[Head(kids)].isShape
            THEN create_shape_buffers(acc, Head(kids), shapeParentId, sharedPalette)
            ELSE acc,
            Tail(kids), shapeParentId, sharedPalette)

-----------------------------------------------------------------------------
(* serialization_v6_save_shape_as_buffer, one action per stage.  sv.buf is *)
(* the malloc'd output buffer: a cell holds -1 until it is written.        *)

UNWRITTEN == -1

\* memcpy(dest + off, bytes, Len(bytes)) into a buffer of fixed allocation
WriteAt(buf, off, bytes) ==
    [i \in 1..(IF off + Len(bytes) > Len(buf) THEN off + Len(bytes) ELSE Len(buf)) |->
        IF i > off /\ i <= off + Len(bytes) THEN bytes[i - off]
        ELSE IF i <= Len(buf) THEN buf[i] ELSE UNWRITTEN]

\* write_chunk_in_buffer: the bytes stored at destBuffer
\* (compressedSize, uncompressedSize: chunkCompressedDataSize, chunkUncompressedDataSize)
write_chunk_in_buffer(chunkID, isCompressed, chunkWriteData, compressedSize, uncompressedSize) ==
    U8(chunkID) \o U32(compressedSize) \o U8(IF isCompressed THEN 1 ELSE 0)
    \o U32(uncompressedSize)
    \o RdBytes(chunkWriteData, 0, IF isCompressed THEN compressedSize
                                  ELSE uncompressedSize)

\* write_preview_chunk_in_buffer: the bytes stored at destBuffer
write_preview_chunk_in_buffer(previewBytes, previewBytesCount) ==
    U8(P3S_CHUNK_ID_PREVIEW) \o U32(previewBytesCount)
    \o RdBytes(previewBytes, 0, previewBytesCount)

\* a chunk stored at the cursor, and the cursor moved past it
WriteChunk(s, bytes) ==
    [s EXCEPT !.buf = WriteAt(s.buf, s.cursor, bytes), !.cursor = s.cursor + Len(bytes)]

HeaderSize == MAGIC_BYTES_SIZE + SERIALIZATION_FILE_FORMAT_VERSION_SIZE
              + SERIALIZATION_COMPRESSION_ALGO_SIZE + SERIALIZATION_TOTAL_SIZE_SIZE

AfterPreview(s) == IF s.hasArtistPalette THEN "save_palette" ELSE "save_shapes"
AfterHeader(s) == IF s.hasPreview THEN "save_preview" ELSE AfterPreview(s)

NoLoad == [result |-> "none"]
saveFrame == <<scene, previewData, artistPalette, junk, file, fault>>

\* the artist palette chunk's buffer, if any (lines 286-299)
NoArtistPalette == [ok |-> TRUE, uncompressedSize |-> 0, compressedSize |-> 0,
                    compressedData |-> <<>>]
ArtistPaletteBuffer(palette) ==
    IF palette.none THEN NoArtistPalette ELSE PaletteCompressedBuffer(palette)

\* The heap of the save: what create_shape_buffers left allocated (one
\* ShapeBuffers struct per entry pushed, the compressed data of each shape
\* that succeeded, the uncompressed data of the one that failed).
ShapeAllocs(acc) ==
    { <<"ShapeBuffers", k>> : k \in 1..Len(acc.list) }
    \cup { <<"shapeCompressedData", k>> :
             k \in 1..(IF acc.ok THEN Len(acc.list) ELSE Len(acc.list) - 1) }
    \cup (IF acc.ok THEN {} ELSE { <<"uncompressedData", Len(acc.list)>> })
ListAlloc == { <<"shapesBuffers", 0>> }
PaletteAlloc(hasArtistPalette) ==
    IF hasArtistPalette THEN { <<"paletteCompressedData", 0>> } ELSE {}
BufAlloc == { <<"buf", 0>> }

\* the function returned false: what it left allocated
SaveAborted(live) == [returned |-> TRUE, ok |-> FALSE, failed |-> TRUE, live |-> live]

\* the locals once the buffer is allocated (lines 300-309)
SaveLocals(hasPreview, shapesBuffers, hasArtistPalette, pb, size, live) ==
    [hasPreview |-> hasPreview,
     failed |-> FALSE,
     ok |-> FALSE,
     live |-> live,
     size |-> size,
     shapesBuffers |-> shapesBuffers,
     hasArtistPalette |-> hasArtistPalette,
     paletteUncompressedDataSize |-> pb.uncompressedSize,
     paletteCompressedDataSize |-> pb.compressedSize,
     paletteCompressedData |-> pb.compressedData,
     buf |-> [i \in 1..size |-> UNWRITTEN],
     cursor |-> 0,
     positionBeforeTotalSize |-> 0,
     positionBeforeChunks |-> 0,
     n |-> 1,
     outBufferSize |-> 0,
     returned |-> FALSE]

\* lines 279-309: the three ways the function gives up before writing
SaveSized(hasPreview, acc, hasArtistPalette, pb) ==
    IF ~acc.ok THEN SaveAborted(ShapeAllocs(acc))
    ELSE IF hasArtistPalette /\ ~pb.ok THEN SaveAborted(ShapeAllocs(acc) \cup ListAlloc)
    ELSE IF Fails("buf", 0) THEN SaveAborted(ShapeAllocs(acc))
    ELSE SaveLocals(hasPreview, acc.list, hasArtistPalette, pb,
                    IF hasArtistPalette
                    THEN acc.size + getChunkHeaderSize(P3S_CHUNK_ID_PALETTE)
                         + pb.compressedSize
                    ELSE acc.size,
                    ShapeAllocs(acc) \cup ListAlloc \cup PaletteAlloc(hasArtistPalette)
                    \cup BufAlloc)

\* size of the header and the preview chunk (lines 264-272)
SizeBeforeShapes(hasPreview) ==
    HeaderSize + (IF hasPreview THEN compute_preview_chunk_size(Len(previewData)) ELSE 0)

\* lines 254-256: shape == NULL
SaveRejectArguments ==
    /\ pc = "save"
    /\ scene.nodes = <<>>
    /\ sv' = [returned |-> TRUE, ok |-> FALSE, failed |-> FALSE, live |-> {}]
    /\ pc' = "load"
    /\ UNCHANGED <<saveFrame, fw, ld, pv>>

\* lines 258-309: size computation, allocation
SaveComputeSize ==
    /\ pc = "save"
    /\ scene.nodes # <<>>
    /\ sv' = SaveSized(Len(previewData) > 0,
                       create_shape_buffers(
                           [ok |-> TRUE, list |-> <<>>, shapeId |-> 1,
                            size |-> SizeBeforeShapes(Len(previewData) > 0)],
                           1, 0, shape_get_palette(scene.nodes[1])),
                       ~artistPalette.none,
                       ArtistPaletteBuffer(artistPalette))
    /\ pc' = IF sv'.failed THEN "load" ELSE "save_header"
    /\ UNCHANGED <<saveFrame, fw, ld, pv>>

\* lines 311-332: magic bytes, format version, compression algo, total size 0
SaveWriteHeader ==
    /\ pc = "save_header"
    /\ sv' = [sv EXCEPT
                !.buf = WriteAt(sv.buf, sv.cursor,
                                MAGIC_BYTES \o U32(6) \o U8(P3sCompressionMethod_ZIP)
                                \o U32(0)),
                !.cursor = sv.cursor + MAGIC_BYTES_SIZE + 4 + 1 + 4,
                !.positionBeforeTotalSize = sv.cursor + MAGIC_BYTES_SIZE + 4 + 1,
                !.positionBeforeChunks = sv.cursor + MAGIC_BYTES_SIZE + 4 + 1 + 4]
    /\ pc' = AfterHeader(sv)
    /\ UNCHANGED <<saveFrame, fw, ld, pv>>

\* lines 334-342
SaveWritePreview ==
    /\ pc = "save_preview"
    /\ sv' = WriteChunk(sv, write_preview_chunk_in_buffer(previewData, Len(previewData)))
    /\ pc' = AfterPreview(sv)
    /\ UNCHANGED <<saveFrame, fw, ld, pv>>

\* lines 344-359
SaveWriteArtistPalette ==
    /\ pc = "save_palette"
    /\ sv' = [WriteChunk(sv, write_chunk_in_buffer(P3S_CHUNK_ID_PALETTE, TRUE,
                                                   sv.paletteCompressedData,
                                                   sv.paletteCompressedDataSize,
                                                   sv.paletteUncompressedDataSize))
              EXCEPT !.live = sv.live \ PaletteAlloc(TRUE)]
    /\ pc' = "save_shapes"
    /\ UNCHANGED <<saveFrame, fw, ld, pv>>

\* lines 361-381: one iteration of the loop over shapesBuffers
SaveWriteShapeChunk ==
    /\ pc = "save_shapes"
    /\ sv.n <= Len(sv.shapesBuffers)
    /\ sv' = [WriteChunk(sv, write_chunk_in_buffer(
                                P3S_CHUNK_ID_SHAPE, TRUE,
                                sv.shapesBuffers[sv.n].shapeCompressedData,
                                sv.shapesBuffers[sv.n].shapeCompressedDataSize,
                                sv.shapesBuffers[sv.n].shapeUncompressedDataSize))
              EXCEPT !.n = sv.n + 1, !.live = sv.live \ { <<"ShapeBuffers", sv.n>> }]
    /\ pc' = "save_shapes"
    /\ UNCHANGED <<saveFrame, fw, ld, pv>>

\* lines 385-386: the value stored in the total size field
TotalSizeNoHeaderOffset(cursor, positionBeforeChunks) == cursor
TotalSizeValue(cursor, positionBeforeChunks) ==
    (cursor - positionBeforeChunks)

\* lines 383-393: total size patched, buffer handed to the caller
SavePatchTotalSize ==
    /\ pc = "save_shapes"
    /\ sv.n > Len(sv.shapesBuffers)
    /\ sv' = [sv EXCEPT !.buf = WriteAt(sv.buf, sv.positionBeforeTotalSize,
                                        U32(TotalSizeValue(sv.cursor,
                                                           sv.positionBeforeChunks))),
                        !.outBufferSize = sv.cursor,
                        !.live = sv.live \ ListAlloc,
                        !.ok = TRUE,
                        !.returned = TRUE]
    /\ pc' = "saved"
    /\ UNCHANGED <<saveFrame, fw, ld, pv>>

SaveNext == \/ SaveRejectArguments
            \/ SaveComputeSize
            \/ SaveWriteHeader
            \/ SaveWritePreview
            \/ SaveWriteArtistPalette
            \/ SaveWriteShapeChunk
            \/ SavePatchTotalSize

-----------------------------------------------------------------------------
(* serialization_save_shape and serialization_v6_save_shape: the file      *)
(* writer.  fw.bytes is the content of the file, fw.ret the value          *)
(* returned, fw.failed whether the write of some chunk returned false.     *)

\* the buffer chunk_v6_write_shape obtains for a shape: the bytes written,
\* then what its own allocation left unwritten
FileBuffer(u) ==
    IF u.written <= u.uncompressedSize
    THEN SubSeq(u.uncompressedData, 1, u.written)
         \o UnwrittenFile(u.uncompressedSize - u.written)
    ELSE u.uncompressedData

\* chunk_v6_write_file: [ok, bytes] (fails: compress() does not return Z_OK)
ChunkFileBytes(chunkID, chunkSize, doCompress, uncompressedSize, data) ==
    [ok |-> TRUE,
     bytes |-> U8(chunkID) \o U32(chunkSize) \o U8(doCompress) \o U32(uncompressedSize)
               \o data]
chunk_v6_write_file(chunkID, size, data, doCompress, fails) ==
    IF doCompress # 0
    THEN IF fails THEN [ok |-> FALSE, bytes |-> <<>>]
         ELSE ChunkFileBytes(chunkID, Len(compress(SubSeq(data, 1, size))), doCompress,
                             size, compress(SubSeq(data, 1, size)))
    ELSE ChunkFileBytes(chunkID, size, doCompress, size, SubSeq(data, 1, size))

\* chunk_v6_write_preview_image: [ok, bytes] (fails: fwrite of the chunk id
\* writes nothing)
chunk_v6_write_preview_image(imageData, imageDataSize, fails) ==
    IF fails THEN [ok |-> FALSE, bytes |-> <<>>]
    ELSE [ok |-> TRUE,
          bytes |-> U8(P3S_CHUNK_ID_PREVIEW) \o U32(imageDataSize)
                    \o (IF imageDataSize > 0 THEN RdBytes(imageData, 0, imageDataSize)
                        ELSE <<>>)]

\* chunk_v6_write_shape: acc = [fd, shapeId, failed]; the value a recursive
\* call returns is not looked at by its caller
RECURSIVE chunk_v6_write_shape(_, _, _, _)
RECURSIVE chunk_v6_write_shape_children(_, _, _, _)
\* lines 546-560 (w: what chunk_v6_write_file returned)
WriteShapeChunkDone(acc, node, sharedPalette, w) ==
    IF ~w.ok THEN [acc EXCEPT !.failed = TRUE]
    ELSE chunk_v6_write_shape_children(
            [acc EXCEPT !.fd = acc.fd \o w.bytes, !.shapeId = NextShapeId(acc.shapeId)],
            scene.children[node], acc.shapeId, sharedPalette)
WriteShapeChunk(acc, node, sharedPalette, u) ==
    WriteShapeChunkDone(acc, node, sharedPalette,
                        chunk_v6_write_file(P3S_CHUNK_ID_SHAPE, u.uncompressedSize,
                                            FileBuffer(u), 1, Fails("shape", acc.shapeId)))
chunk_v6_write_shape(acc, node, shapeParentId, sharedPalette) ==
    WriteShapeChunk(acc, node, sharedPalette,
                    ShapeUncompressedBuffer(scene.nodes[node], acc.shapeId, shapeParentId,
                                            sharedPalette))
\* lines 562-573
chunk_v6_write_shape_children(acc, kids, shapeParentId, sharedPalette) ==
    IF kids = <<>> THEN acc
    ELSE chunk_v6_write_shape_children(
            IF scene.nodes[Head(kids)].isShape
            THEN chunk_v6_write_shape(acc, Head(kids), shapeParentId, sharedPalette)
            ELSE acc,
            Tail(kids), shapeParentId, sharedPalette)

NoFile == [returned |-> FALSE]

\* serialization_save_shape, lines 132-136: shape == NULL
FileSaveRejectArguments ==
    /\ pc = "fsave"
    /\ scene.nodes = <<>>
    /\ fw' = [returned |-> TRUE, ret |-> FALSE, failed |-> FALSE, bytes |-> <<>>]
    /\ pc' = "save"
    /\ UNCHANGED <<saveFrame, sv, ld, pv>>

\* serialization_save_shape, line 144, and serialization_v6_save_shape,
\* lines 193-217: magic bytes, format, compression algo, total size 0
FileSaveHeader ==
    /\ pc = "fsave"
    /\ scene.nodes # <<>>
    /\ fw' = [returned |-> FALSE, ret |-> FALSE, failed |-> FALSE,
              bytes |-> MAGIC_BYTES \o U32(6) \o U8(P3sCompressionMethod_ZIP) \o U32(0),
              positionBeforeTotalSize |-> MAGIC_BYTES_SIZE + 4 + 1,
              positionBeforeChunks |-> MAGIC_BYTES_SIZE + 4 + 1 + 4]
    /\ pc' = "fsave_preview"
    /\ UNCHANGED <<saveFrame, sv, ld, pv>>

\* line 222: chunk_v6_write_preview_image(fd, imageData, imageDataSize);
FilePreviewWritten(f, w) ==
    [f EXCEPT !.bytes = f.bytes \o w.bytes, !.failed = f.failed \/ ~w.ok]
FileSavePreview ==
    /\ pc = "fsave_preview"
    /\ fw' = FilePreviewWritten(fw, chunk_v6_write_preview_image(
                                        previewData, Len(previewData),
                                        Fails("preview", 0)))
    /\ pc' = "fsave_shapes"
    /\ UNCHANGED <<saveFrame, sv, ld, pv>>

\* lines 224-225: chunk_v6_write_shape(fd, shape, &shapeId, 0, palette, true);
FileShapesWritten(f, acc) ==
    [f EXCEPT !.bytes = acc.fd, !.failed = acc.failed]
FileSaveShapes ==
    /\ pc = "fsave_shapes"
    /\ fw' = FileShapesWritten(fw, chunk_v6_write_shape(
                                      [fd |-> fw.bytes, shapeId |-> 1,
                                       failed |-> fw.failed],
                                      1, 0, shape_get_palette(scene.nodes[1])))
    /\ pc' = "fsave_size"
    /\ UNCHANGED <<saveFrame, sv, ld, pv>>

\* v6_write_size_at: fseek, fwrite, fseek back
v6_write_size_at(bytes, position, size) == WriteAt(bytes, position, U32(size))

\* lines 231-239: total size patched, return true
FileSaveTotalSize ==
    /\ pc = "fsave_size"
    /\ fw' = [fw EXCEPT
                !.bytes = v6_write_size_at(fw.bytes, fw.positionBeforeTotalSize,
                                           Len(fw.bytes) - fw.positionBeforeChunks),
                !.ret = TRUE,
                !.returned = TRUE]
    /\ pc' = "save"
    /\ UNCHANGED <<saveFrame, sv, ld, pv>>

FileSaveNext == \/ FileSaveRejectArguments
                \/ FileSaveHeader
                \/ FileSavePreview
                \/ FileSaveShapes
                \/ FileSaveTotalSize

-----------------------------------------------------------------------------
(* Reading: the heap of loaded objects.  A pointer is an index into        *)
(* L.palettes or L.shapeObjs; NULL is 0.                                   *)

NULL == 0

\* a ColorPalette created by the loader
NewPalette(colors, emissive) ==
    [colors |-> colors, emissive |-> emissive, released |-> FALSE]

\* the built-in legacy palettes (pico8+ and 2021): color of a default index
LegacyColor(paletteID, colorIndex) == 1000 * paletteID + colorIndex

color_palette_get_count(p) == Len(p.colors)
color_palette_get_color(p, colorIndex) ==
    IF colorIndex < Len(p.colors) THEN p.colors[colorIndex + 1] ELSE 0

\* color_palette_check_and_add_color: [success, palette, colorIndex]
color_palette_check_and_add_color(p, color) ==
    IF \E i \in 1..Len(p.colors) : p.colors[i] = color
    THEN [success |-> TRUE, palette |-> p,
          colorIndex |-> (CHOOSE i \in 1..Len(p.colors) : p.colors[i] = color) - 1]
    ELSE IF Len(p.colors) < SHAPE_COLOR_INDEX_MAX_COUNT
         THEN [success |-> TRUE,
               palette |-> [p EXCEPT !.colors = Append(p.colors, color),
                                     !.emissive = Append(p.emissive, 0)],
               colorIndex |-> Len(p.colors)]
         ELSE [success |-> FALSE, palette |-> p, colorIndex |-> 0]

minimum(a, b) == IF a < b THEN a ELSE b

\* color_palette_new_from_data
color_palette_new_from_data(data, count, colorsAt, emissiveAt) ==
    NewPalette([i \in 1..count |-> RdU32(data, colorsAt + 4 * (i - 1))],
               [i \in 1..count |-> At(data, emissiveAt + i - 1)])
\* lines 709-719
PaletteData(data, colorCount, colorsAt) ==
    color_palette_new_from_data(data, minimum(colorCount, UINT8_MAX) % TwoTo8, colorsAt,
                                colorsAt + 4 * colorCount)
\* chunk_v6_read_palette_data: the palette built from the bytes at off
chunk_v6_read_palette_data(data, off, isLegacy) ==
    IF isLegacy THEN PaletteData(data, RdU16(data, off + 2), off + 6)
    ELSE PaletteData(data, At(data, off), off + 1)

\* shape_make_2
BlankShape ==
    [palette |-> NULL, paletteShared |-> FALSE, blocks |-> <<>>,
     pois |-> <<>>, rots |-> <<>>,
     parent |-> NULL, position |-> float3_zero, rotation |-> float3_zero,
     scale |-> <<1, 1, 1>>, pivot |-> float3_zero, pivotCentered |-> FALSE,
     name |-> <<>>, hasCollider |-> FALSE, colliderMin |-> float3_zero,
     colliderMax |-> float3_zero, hidden |-> FALSE, lighting |-> FALSE,
     \* what the envelope declared (kept for the properties)
     size |-> <<0, 0, 0>>, declaredParentId |-> 0, embeddedPalette |-> FALSE,
     storedTransform |-> <<float3_zero, float3_zero, <<1, 1, 1>>>>, filePalette |-> 0,
     embeddedColors |-> <<>>, shrink |-> FALSE, mode |-> "none"]

-----------------------------------------------------------------------------
(* Stream (collaborator): typed reads fail on a short read and leave the   *)
(* cursor where it was; an out-of-bounds skip fails likewise.              *)

stream_can_read(L, n) == L.pos + n <= Len(L.stream)
stream_skip(L, n) == IF stream_can_read(L, n) THEN L.pos + n ELSE L.pos

\* chunk_v6_read_identifier applied to the byte read
ChunkIdAcceptAll(i) == i
ChunkIdOf(i) == IF i > P3S_CHUNK_ID_NONE /\ i < P3S_CHUNK_ID_MAX THEN i
                ELSE P3S_CHUNK_ID_NONE

\* chunk_v6_read_identifier: [id, pos]
chunk_v6_read_identifier(L) ==
    IF ~stream_can_read(L, 1) THEN [id |-> P3S_CHUNK_ID_NONE, pos |-> L.pos]
    ELSE [id |-> ChunkIdOf(At(L.stream, L.pos)), pos |-> L.pos + 1]

\* chunk_v6_read_size: [size, pos]
chunk_v6_read_size(L) ==
    IF ~stream_can_read(L, 4) THEN [size |-> 0, pos |-> L.pos]
    ELSE [size |-> RdU32(L.stream, L.pos), pos |-> L.pos + 4]

\* chunk_v6_read: [ok, chunkData, chunkSize, uncompressedSize, pos]
ChunkReadFailed(pos) ==
    [ok |-> FALSE, chunkData |-> <<>>, chunkSize |-> 0, uncompressedSize |-> 0,
     pos |-> pos]
ChunkRead(chunkData, chunkSize, uncompressedSize, pos) ==
    [ok |-> TRUE, chunkData |-> chunkData, chunkSize |-> chunkSize,
     uncompressedSize |-> uncompressedSize, pos |-> pos]
\* lines 654-667 (malloc(_uncompressedSize): bytes zlib does not produce stay
\* unwritten)
ChunkUncompress(z, chunkSize, uncompressedSize, pos) ==
    IF ~z.ok THEN ChunkReadFailed(pos)
    ELSE ChunkRead(z.data \o Unwritten(uncompressedSize - Len(z.data)), chunkSize,
                   uncompressedSize, pos)
\* lines 642-670
ChunkReadData(L, chunkSize, isCompressed, uncompressedSize, dataAt) ==
    IF chunkSize = 0 \/ uncompressedSize = 0 THEN ChunkReadFailed(dataAt)
    ELSE IF ~stream_can_read(L, CHUNK_V6_HEADER_NO_ID_SIZE + chunkSize)
    THEN ChunkReadFailed(dataAt)
    ELSE IF isCompressed # 0
    THEN ChunkUncompress(uncompress(RdBytes(L.stream, dataAt, chunkSize),
                                    uncompressedSize),
                         chunkSize, uncompressedSize, dataAt + chunkSize)
    ELSE ChunkRead(RdBytes(L.stream, dataAt, chunkSize), chunkSize, uncompressedSize,
                   dataAt + chunkSize)
chunk_v6_read(L) ==
    IF ~stream_can_read(L, 4) THEN ChunkReadFailed(L.pos)
    ELSE IF ~stream_can_read(L, 5) THEN ChunkReadFailed(L.pos + 4)
    ELSE IF ~stream_can_read(L, 9) THEN ChunkReadFailed(L.pos + 5)
    ELSE ChunkReadData(L, RdU32(L.stream, L.pos), At(L.stream, L.pos + 4),
                       RdU32(L.stream, L.pos + 5), L.pos + CHUNK_V6_HEADER_NO_ID_SIZE)

\* chunk_v6_with_v5_header_skip: [skippedBytes, pos]
SkipV5(L, r) ==
    [skippedBytes |-> 4 + r.size, pos |-> stream_skip([L EXCEPT !.pos = r.pos], r.size)]
chunk_v6_with_v5_header_skip(L) == SkipV5(L, chunk_v6_read_size(L))

\* color_palette_release / free of a palette pointer
ReleasePalette(palettes, ptr) ==
    IF ptr = NULL THEN palettes
    ELSE [palettes EXCEPT ![ptr].released = TRUE]

\* chunk_v6_read_palette: [sizeRead, L] with L.serializedPalette set
\* lines 732-735
PaletteReleased(L) ==
    [L EXCEPT !.palettes = ReleasePalette(L.palettes, L.serializedPalette),
              !.serializedPalette = NULL]
\* lines 741-749
PaletteRead(L, r, isLegacy) ==
    IF ~r.ok THEN [sizeRead |-> 0, L |-> [L EXCEPT !.pos = r.pos]]
    ELSE [sizeRead |-> CHUNK_V6_HEADER_NO_ID_SIZE + r.chunkSize,
          L |-> [L EXCEPT
                   !.pos = r.pos,
                   !.palettes = Append(L.palettes,
                                       chunk_v6_read_palette_data(r.chunkData, 0, isLegacy)),
                   !.serializedPalette = Len(L.palettes) + 1]]
PaletteReadFrom(L, isLegacy) == PaletteRead(L, chunk_v6_read(L), isLegacy)
chunk_v6_read_palette(L, isLegacy) == PaletteReadFrom(PaletteReleased(L), isLegacy)

\* chunk_v6_read_palette_id: [sizeRead, paletteID, pos]
PaletteIdRead(L, r) ==
    IF ~r.ok THEN [sizeRead |-> 0, paletteID |-> L.paletteID, pos |-> r.pos]
    ELSE [sizeRead |-> CHUNK_V6_HEADER_NO_ID_SIZE + r.chunkSize,
          paletteID |-> At(r.chunkData, 0), pos |-> r.pos]
chunk_v6_read_palette_id(L) == PaletteIdRead(L, chunk_v6_read(L))

-----------------------------------------------------------------------------
(* chunk_v6_read_shape *)

\* a C string built from n copied bytes and a terminator: it ends at the
\* first zero byte
CString(bytes) ==
    IF \E i \in 1..Len(bytes) : bytes[i] = 0
    THEN SubSeq(bytes, 1, (CHOOSE i \in 1..Len(bytes) :
                              bytes[i] = 0 /\ \A j \in 1..(i - 1) : bytes[j] # 0) - 1)
    ELSE bytes

\* map_string_float3_set_key_value
map_string_float3_set_key_value(m, key, value) ==
    [k \in (DOMAIN m) \cup {key} |-> IF k = key THEN value ELSE m[k]]
map_string_float3_new == [k \in {} |-> float3_zero]

\* locals of chunk_v6_read_shape at the start of the sub-chunk loop
\* (palettes: the palettes allocated by the loop, appended to the heap after
\* the Len(heap) = base existing ones)
EnvelopeLocals(rootShapePalette, paletteID) ==
    [cursor |-> 0, shapeBlocksCursor |-> -1, totalSizeRead |-> 0, sizeRead |-> 0,
     lightingDataSizeRead |-> 0, hasLightingData |-> FALSE,
     pois |-> map_string_float3_new, pois_rotation |-> map_string_float3_new,
     palette |-> NULL, palettes |-> <<>>,
     width |-> 0, height |-> 0, depth |-> 0, shapeId |-> 1, shapeParentId |-> 0,
     hasCustomCollisionBox |-> FALSE, collisionBoxMin |-> float3_zero,
     collisionBoxMax |-> float3_zero, isHiddenSelf |-> 0,
     position |-> float3_zero, rotation |-> float3_zero, scale |-> <<1, 1, 1>>,
     name |-> <<>>, hasName |-> FALSE, pivot |-> float3_zero, hasPivot |-> FALSE,
     shapeMade |-> FALSE, rootShapePalette |-> rootShapePalette,
     paletteID |-> paletteID, steps |-> 0]

\* the default branch: sub-chunks the reader does not need
SkipBy(e, sizeRead) ==
    [e EXCEPT !.sizeRead = sizeRead, !.cursor = e.cursor + sizeRead,
              !.totalSizeRead = e.totalSizeRead + sizeRead]
SkipUnknownSubChunk(e, data, uncompressedSize) ==
    IF uncompressedSize >= e.totalSizeRead /\ uncompressedSize - e.totalSizeRead >= 4
    THEN SkipBy(e, CHUNK_V6_HEADER_NO_ID_SIZE + RdU32(data, e.cursor))
    ELSE [e EXCEPT !.totalSizeRead = uncompressedSize]

\* the tail of a sub-chunk framed by a uint32 size: the cursor past the size
\* and the bytes consumed, and the size accounted (d: the offset of the payload)
Advance(e, d, len, sizeRead) ==
    [e EXCEPT !.cursor = d + len, !.sizeRead = sizeRead,
              !.totalSizeRead = e.totalSizeRead + 1 + sizeRead + 4,
              !.steps = e.steps + 1]

\* case P3S_CHUNK_ID_SHAPE_PALETTE; ptr: the address of the new palette
\* (rootShapePalette left as it was)
ReadPaletteSubChunkKeepsRoot(e, data, d, sizeRead, ptr) ==
    [Advance(e, d, sizeRead, sizeRead) EXCEPT
        !.palettes = Append(e.palettes, chunk_v6_read_palette_data(data, d, FALSE)),
        !.palette = ptr,
        !.paletteID = PALETTE_ID_CUSTOM]
ReadPaletteSubChunk(e, data, d, sizeRead, ptr) ==
    [Advance(e, d, sizeRead, sizeRead) EXCEPT
        !.palettes = Append(e.palettes, chunk_v6_read_palette_data(data, d, FALSE)),
        !.palette = ptr,
        !.paletteID = PALETTE_ID_CUSTOM,
        !.rootShapePalette = IF e.rootShapePalette = NULL THEN ptr
                             ELSE e.rootShapePalette]

\* case P3S_CHUNK_ID_SHAPE_NAME (c: the offset after the id)
ReadNameSubChunk(e, data, c, nameLen) ==
    [e EXCEPT !.name = CString(RdBytes(data, c + 1, nameLen)),
              !.hasName = TRUE,
              !.cursor = c + 1 + nameLen,
              !.totalSizeRead = e.totalSizeRead + 1 + 1 + nameLen,
              !.steps = e.steps + 1]

\* case P3S_CHUNK_ID_SHAPE_POINT, P3S_CHUNK_ID_SHAPE_POINT_ROTATION
ReadPoint(e, isRotation, key, value) ==
    IF isRotation
    THEN [e EXCEPT !.pois_rotation =
                       map_string_float3_set_key_value(e.pois_rotation, key, value)]
    ELSE [e EXCEPT !.pois = map_string_float3_set_key_value(e.pois, key, value)]
ReadPointSubChunk(e, data, d, sizeRead, nameLen, isRotation) ==
    ReadPoint(Advance(e, d, 1 + nameLen + 12, sizeRead), isRotation,
              CString(RdBytes(data, d + 1, nameLen)), RdFloat3(data, d + 1 + nameLen))

\* case P3S_CHUNK_ID_SHAPE_BAKED_LIGHTING, up to the missing break
ReadLightingSubChunk(e, d, lightingDataSizeRead, lighting) ==
    [e EXCEPT !.lightingDataSizeRead = lightingDataSizeRead,
              !.cursor = IF lighting THEN d + lightingDataSizeRead ELSE d,
              !.totalSizeRead = e.totalSizeRead + 1 + lightingDataSizeRead + 4,
              !.hasLightingData = e.hasLightingData \/ lighting,
              !.steps = e.steps + 1]

\* the switch on the sub-chunk id (c: the offset after the id, d: after the size)
SubChunkSwitch(e, data, uncompressedSize, lighting, base, chunkID, c, d, sizeRead) ==
    CASE chunkID = P3S_CHUNK_ID_SHAPE_ID ->
           [Advance(e, d, 2, sizeRead) EXCEPT !.shapeId = RdU16(data, d)]
      [] chunkID = P3S_CHUNK_ID_SHAPE_PARENT_ID ->
           [Advance(e, d, 2, sizeRead) EXCEPT !.shapeParentId = RdU16(data, d)]
      [] chunkID = P3S_CHUNK_ID_SHAPE_TRANSFORM ->
           [Advance(e, d, 36, sizeRead) EXCEPT !.position = RdFloat3(data, d),
                                               !.rotation = RdFloat3(data, d + 12),
                                               !.scale = RdFloat3(data, d + 24)]
      [] chunkID = P3S_CHUNK_ID_SHAPE_PIVOT ->
           [Advance(e, d, 12, sizeRead) EXCEPT !.pivot = RdFloat3(data, d),
                                               !.hasPivot = TRUE]
      [] chunkID = P3S_CHUNK_ID_SHAPE_PALETTE ->
           ReadPaletteSubChunk(e, data, d, sizeRead, base + Len(e.palettes) + 1)
      [] chunkID = P3S_CHUNK_ID_OBJECT_COLLISION_BOX ->
           [Advance(e, d, 24, sizeRead) EXCEPT !.collisionBoxMin = RdFloat3(data, d),
                                               !.collisionBoxMax = RdFloat3(data, d + 12),
                                               !.hasCustomCollisionBox = TRUE]
      [] chunkID = P3S_CHUNK_ID_OBJECT_IS_HIDDEN ->
           [Advance(e, d, 1, sizeRead) EXCEPT !.isHiddenSelf = At(data, d)]
      [] chunkID = P3S_CHUNK_ID_SHAPE_NAME ->
           ReadNameSubChunk(e, data, c, At(data, c))
      [] chunkID = P3S_CHUNK_ID_SHAPE_SIZE ->
           [Advance(e, d, 6, sizeRead) EXCEPT !.width = RdU16(data, d),
                                              !.height = RdU16(data, d + 2),
                                              !.depth = RdU16(data, d + 4),
                                              !.shapeMade = TRUE]
      [] chunkID = P3S_CHUNK_ID_SHAPE_BLOCKS ->
           [Advance(e, d, sizeRead, sizeRead) EXCEPT !.shapeBlocksCursor = c]
      [] chunkID = P3S_CHUNK_ID_SHAPE_POINT ->
           ReadPointSubChunk(e, data, d, sizeRead, At(data, d), FALSE)
      [] chunkID = P3S_CHUNK_ID_SHAPE_POINT_ROTATION ->
           ReadPointSubChunk(e, data, d, sizeRead, At(data, d), TRUE)
      [] chunkID = P3S_CHUNK_ID_SHAPE_BAKED_LIGHTING /\ GLOBAL_LIGHTING_BAKE_READ_ENABLED ->
           \* no break: the default branch runs after this one
           SkipUnknownSubChunk(ReadLightingSubChunk(e, d, sizeRead, lighting), data,
                               uncompressedSize)
      [] OTHER ->
           SkipUnknownSubChunk([e EXCEPT !.cursor = c,
                                         !.totalSizeRead = e.totalSizeRead + 1,
                                         !.steps = e.steps + 1],
                               data, uncompressedSize)

\* one iteration of the sub-chunk loop (lines 890-1130)
ReadSubChunk(e, data, uncompressedSize, lighting, base) ==
    SubChunkSwitch(e, data, uncompressedSize, lighting, base, At(data, e.cursor),
                   e.cursor + 1, e.cursor + 5, RdU32(data, e.cursor + 1))

\* the number of sub-chunk iterations followed in one envelope
MaxSubChunks == 40

\* while (totalSizeRead < uncompressedSize)
RECURSIVE ReadSubChunks(_, _, _, _, _)
ReadSubChunks(e, data, uncompressedSize, lighting, base) ==
    IF e.totalSizeRead < uncompressedSize /\ e.steps < MaxSubChunks
    THEN ReadSubChunks(ReadSubChunk(e, data, uncompressedSize, lighting, base),
                       data, uncompressedSize, lighting, base)
    ELSE e

\* color_palette_check_and_add_default_color_pico8p / _2021
color_palette_check_and_add_default_color(p, paletteID, colorIndex) ==
    color_palette_check_and_add_color(p, LegacyColor(paletteID, colorIndex))

\* shape_add_block after the translation of the color index; r: the result
\* of the translation
AddBlock(acc, r, xyz) ==
    [palette |-> r.palette,
     blocks |-> [k \in (DOMAIN acc.blocks) \cup {xyz} |->
                    IF k = xyz THEN (IF r.success THEN r.colorIndex ELSE 0)
                    ELSE acc.blocks[k]]]

\* lines 790-806: the color index translated into the shape's palette
TranslateColorIndex(palette, colorIndex, paletteID, shrink, shrinkPalette) ==
    IF paletteID = PALETTE_ID_IOS_ITEM_EDITOR_LEGACY \/ paletteID = PALETTE_ID_2021
    THEN color_palette_check_and_add_default_color(palette, paletteID, colorIndex)
    ELSE IF shrink
    THEN color_palette_check_and_add_color(
            palette, color_palette_get_color(shrinkPalette, colorIndex))
    ELSE [success |-> TRUE, palette |-> palette, colorIndex |-> colorIndex]

\* the body of the x, y, z loop nest for one cell
ProcessBlock(acc, colorIndex, xyz, paletteID, shrink, shrinkPalette) ==
    IF colorIndex = SHAPE_COLOR_INDEX_AIR_BLOCK THEN acc
    ELSE AddBlock(acc, TranslateColorIndex(acc.palette, colorIndex, paletteID, shrink,
                                           shrinkPalette), xyz)

\* chunk_v6_read_shape_process_blocks, cells i..(w*h*d - 1) of the x, y, z
\* loop nest: acc = [palette, blocks]
RECURSIVE chunk_v6_read_shape_process_blocks(_, _, _, _, _, _, _, _)
\* (pal: shrinkPalette)
chunk_v6_read_shape_process_blocks(acc, data, cursor, i, whd, paletteID, shrink, pal) ==
    IF i >= whd[1] * whd[2] * whd[3] THEN acc
    ELSE chunk_v6_read_shape_process_blocks(
            ProcessBlock(acc, At(data, cursor + 4 + i), CellCoords(<<0, 0, 0>>, whd, i),
                         paletteID, shrink, pal),
            data, cursor, i + 1, whd, paletteID, shrink, pal)

\* doubly_linked_list_node_pointer(doubly_linked_list_node_at_index(shapes, i))
NodePointerAtIndex(shapes, i) ==
    IF i >= 0 /\ i < Len(shapes) THEN shapes[i + 1] ELSE NULL

\* lines 1148-1166: the compatibility mode, the shape's palette (ptr; alloc:
\* the palette allocated for it, if any) and the palette id the blocks use
MultiModeNeverShared(ptr, shared) ==
    [mode |-> "MULTI", ptr |-> ptr, shared |-> FALSE, alloc |-> <<>>,
     shrink |-> FALSE, paletteID |-> PALETTE_ID_CUSTOM]
MultiMode(ptr, shared) ==
    [mode |-> "MULTI", ptr |-> ptr, shared |-> shared, alloc |-> <<>>,
     shrink |-> FALSE, paletteID |-> PALETTE_ID_CUSTOM]
SingleMode(filePalette, shrinkPalette, fresh) ==
    [mode |-> "SINGLE", ptr |-> fresh, shared |-> FALSE,
     alloc |-> << IF shrinkPalette THEN NewPalette(<<>>, <<>>)
                  ELSE NewPalette(filePalette.colors, filePalette.emissive) >>,
     shrink |-> shrinkPalette, paletteID |-> PALETTE_ID_CUSTOM]
ShrinkOnOverflowOnly(count) == count > SHAPE_COLOR_INDEX_MAX_COUNT
ShrinkPalette(count) == count >= SHAPE_COLOR_INDEX_MAX_COUNT
\* (the file palette taking precedence over the embedded ones)
ResolvePaletteModeFileFirst(L, e, fresh) ==
    IF L.serializedPalette # NULL
    THEN SingleMode(L.palettes[L.serializedPalette],
                    ShrinkPalette(color_palette_get_count(L.palettes[L.serializedPalette])),
                    fresh)
    ELSE IF e.palette # NULL THEN MultiMode(e.palette, FALSE)
    ELSE IF e.rootShapePalette # NULL THEN MultiMode(e.rootShapePalette, TRUE)
    ELSE [mode |-> "LEGACY", ptr |-> fresh, shared |-> FALSE,
          alloc |-> << NewPalette(<<>>, <<>>) >>, shrink |-> FALSE,
          paletteID |-> e.paletteID]
ResolvePaletteMode(L, e, fresh) ==
    IF e.rootShapePalette # NULL \/ e.palette # NULL
    THEN IF e.palette # NULL THEN MultiMode(e.palette, FALSE)
         ELSE MultiMode(e.rootShapePalette, TRUE)
    ELSE IF L.serializedPalette # NULL
    THEN SingleMode(L.palettes[L.serializedPalette],
                    ShrinkPalette(color_palette_get_count(L.palettes[L.serializedPalette])),
                    fresh)
    ELSE [mode |-> "LEGACY", ptr |-> fresh, shared |-> FALSE,
          alloc |-> << NewPalette(<<>>, <<>>) >>, shrink |-> FALSE,
          paletteID |-> e.paletteID]

\* lines 1168-1177
ProcessBlocks(L, e, data, m, palette) ==
    IF e.shapeBlocksCursor # -1
    THEN chunk_v6_read_shape_process_blocks(
            [palette |-> palette, blocks |-> <<>>], data, e.shapeBlocksCursor, 0,
            <<e.width, e.height, e.depth>>, m.paletteID, m.shrink,
            IF m.shrink THEN L.palettes[L.serializedPalette] ELSE NewPalette(<<>>, <<>>))
    ELSE [palette |-> palette, blocks |-> <<>>]

\* lines 1205-1280: lighting, parent, pivot, name, collider, hidden
\* (parent: the node found at index shapeParentId - 1 of shapes, after the push)
LoadedShape(L, e, m, blocks, parent, attached) ==
    [BlankShape EXCEPT
        !.palette = m.ptr, !.paletteShared = m.shared, !.mode = m.mode,
        !.embeddedPalette = (e.palette # NULL),
        !.embeddedColors = IF e.palette # NULL
                           THEN e.palettes[e.palette - Len(L.palettes)].colors
                           ELSE <<>>,
        !.shrink = m.shrink,
        !.blocks = blocks,
        !.pois = e.pois, !.rots = e.pois_rotation,
        !.lighting = ( L.lighting /\ e.hasLightingData
                       /\ e.lightingDataSizeRead
                          = e.width * e.height * e.depth * VERTEX_LIGHT_STRUCT_SIZE ),
        !.parent = IF attached THEN parent ELSE NULL,
        !.position = IF attached THEN e.position ELSE float3_zero,
        !.rotation = IF attached THEN e.rotation ELSE float3_zero,
        !.scale = IF attached THEN e.scale ELSE <<1, 1, 1>>,
        !.pivot = IF e.hasPivot THEN e.pivot ELSE float3_zero,
        !.pivotCentered = ~e.hasPivot,
        !.name = IF e.hasName THEN e.name ELSE <<>>,
        !.hasCollider = e.hasCustomCollisionBox,
        !.colliderMin = e.collisionBoxMin,
        !.colliderMax = e.collisionBoxMax,
        !.hidden = (e.isHiddenSelf = 1),
        !.size = <<e.width, e.height, e.depth>>,
        !.declaredParentId = e.shapeParentId,
        !.storedTransform = <<e.position, e.rotation, e.scale>>,
        !.filePalette = L.serializedPalette]

\* lines 1226-1231: the shape is pushed, then its parent is looked up
LinkedShape(L, e, m, blocks, parent) ==
    LoadedShape(L, e, m, blocks, parent, e.shapeParentId - 1 >= 0 /\ parent # NULL)

ShapeRead(L, r, e, m, heap, pb, shapes) ==
    [sizeRead |-> CHUNK_V6_HEADER_NO_ID_SIZE + r.chunkSize,
     L |-> [L EXCEPT
              !.pos = r.pos,
              !.palettes = [heap EXCEPT ![m.ptr] = pb.palette],
              !.rootShapePalette = e.rootShapePalette,
              !.shapeObjs = Append(L.shapeObjs,
                                   LinkedShape(L, e, m, pb.blocks,
                                               NodePointerAtIndex(shapes,
                                                                  e.shapeParentId - 1))),
              !.shapes = shapes,
              !.assertFailed = L.assertFailed
                               \/ (m.mode = "LEGACY" /\ e.paletteID = PALETTE_ID_CUSTOM),
              !.subChunkSteps = e.steps,
              !.lastShape = Len(L.shapeObjs) + 1]]

ShapeWithMode(L, r, e, m, heap) ==
    ShapeRead(L, r, e, m, heap, ProcessBlocks(L, e, r.chunkData, m, heap[m.ptr]),
              Append(L.shapes, Len(L.shapeObjs) + 1))

ShapeWithModeAlloc(L, r, e, m, heap) == ShapeWithMode(L, r, e, m, heap \o m.alloc)

ShapeWithHeap(L, r, e, heap) ==
    IF ~e.shapeMade
    THEN \* free(palette); the caller's rootShapePalette keeps what the loop set
         [sizeRead |-> 0,
          L |-> [L EXCEPT !.pos = r.pos,
                          !.palettes = ReleasePalette(heap, e.palette),
                          !.rootShapePalette = e.rootShapePalette]]
    ELSE ShapeWithModeAlloc(L, r, e, ResolvePaletteMode(L, e, Len(heap) + 1), heap)

ShapeAfterLoop(L, r, e) == ShapeWithHeap(L, r, e, L.palettes \o e.palettes)

ShapeAfterRead(L, r) ==
    IF ~r.ok THEN [sizeRead |-> 0, L |-> [L EXCEPT !.pos = r.pos]]
    ELSE ShapeAfterLoop(L, r,
                        ReadSubChunks(EnvelopeLocals(L.rootShapePalette, L.paletteID),
                                      r.chunkData, r.uncompressedSize, L.lighting,
                                      Len(L.palettes)))

\* chunk_v6_read_shape: [sizeRead, L]
chunk_v6_read_shape(L) == ShapeAfterRead(L, chunk_v6_read(L))

-----------------------------------------------------------------------------
(* serialization_load_assets_v6 and the magic bytes / version prefix its   *)
(* caller reads.  L holds the locals of the function and the heap.         *)

AssetType_Any == "Any"
AssetType_Palette == "Palette"
AssetType_Shape == "Shape"
AssetType_Object == "Object"
\* filterMask == AssetType_Any || (filterMask & AssetType_Palette) > 0
WantsPalette(filterMask) == filterMask = AssetType_Any \/ filterMask = AssetType_Palette
\* filterMask == AssetType_Any || (filterMask & (AssetType_Shape | AssetType_Object)) > 0
WantsShape(filterMask) ==
    filterMask = AssetType_Any \/ filterMask \in {AssetType_Shape, AssetType_Object}

\* readMagicBytes and the format version switch: [ok, pos]
ReadMagicAndVersion(stream) ==
    IF Len(stream) < MAGIC_BYTES_SIZE \/ SubSeq(stream, 1, MAGIC_BYTES_SIZE) # MAGIC_BYTES
    THEN [ok |-> FALSE, pos |-> 0]
    ELSE IF Len(stream) < MAGIC_BYTES_SIZE + 4
    THEN [ok |-> FALSE, pos |-> MAGIC_BYTES_SIZE]
    ELSE [ok |-> RdU32(stream, MAGIC_BYTES_SIZE) = 6, pos |-> MAGIC_BYTES_SIZE + 4]

\* the locals before the header is read; result: "running", "list" or "null"
LoadLocals(stream, pos, filterMask, lighting) ==
    [stream |-> stream, pos |-> pos, filterMask |-> filterMask, lighting |-> lighting,
     totalSize |-> 0, totalSizeRead |-> 0, sizeRead |-> 0, chunkID |-> 0,
     error |-> FALSE, list |-> <<>>, shapes |-> <<>>,
     palettes |-> <<>>, shapeObjs |-> <<>>,
     serializedPalette |-> NULL, rootShapePalette |-> NULL,
     serializedPaletteAssigned |-> FALSE,
     paletteID |-> PALETTE_ID_IOS_ITEM_EDITOR_LEGACY,
     assertFailed |-> FALSE, subChunkSteps |-> 0, lastShape |-> NULL,
     iterations |-> 0, result |-> "running"]

\* the caller's prefix: a stream that fails it is not handed to the loader
LoadStart(stream, m, filterMask, lighting) ==
    [LoadLocals(stream, m.pos, filterMask, lighting) EXCEPT
        !.result = IF m.ok THEN "running" ELSE "null"]

\* lines 2026-2077
LoadAssetsHeader(L) ==
    IF ~stream_can_read(L, 1) THEN [L EXCEPT !.result = "null"]
    ELSE IF At(L.stream, L.pos) >= P3sCompressionMethod_COUNT
    THEN [L EXCEPT !.pos = L.pos + 1, !.result = "null"]
    ELSE IF ~stream_can_read(L, 5) THEN [L EXCEPT !.pos = L.pos + 1, !.result = "null"]
    ELSE [L EXCEPT !.pos = L.pos + 5, !.totalSize = RdU32(L.stream, L.pos + 1)]

\* while (totalSizeRead < totalSize && error == false)
\* (a loop that runs once more)
LoopCondInclusive(L) == L.totalSizeRead <= L.totalSize /\ ~L.error
LoopCond(L) == L.totalSizeRead < L.totalSize /\ ~L.error

\* lines 2079-2080
ChunkIdRead(L, r) ==
    [L EXCEPT !.chunkID = r.id, !.pos = r.pos, !.totalSizeRead = L.totalSizeRead + 1,
              !.iterations = L.iterations + 1]
ReadChunkId(L) == ChunkIdRead(L, chunk_v6_read_identifier(L))

\* case P3S_CHUNK_ID_NONE
CaseNone(L) == [L EXCEPT !.error = TRUE]

\* the end of a case: the error flag, or the size accounted
CaseEnd(L, sizeRead) ==
    IF sizeRead = 0 THEN [L EXCEPT !.sizeRead = sizeRead, !.error = TRUE]
    ELSE [L EXCEPT !.sizeRead = sizeRead, !.totalSizeRead = L.totalSizeRead + sizeRead]

\* case P3S_CHUNK_ID_PALETTE_LEGACY, P3S_CHUNK_ID_PALETTE
\* lines 2097-2108
PaletteAsset(L) ==
    IF WantsPalette(L.filterMask)
    THEN [L EXCEPT !.list = Append(L.list, [type |-> AssetType_Palette,
                                            ptr |-> L.serializedPalette]),
                   !.serializedPaletteAssigned = TRUE]
    ELSE L
PaletteCase(r) == CaseEnd(PaletteAsset([r.L EXCEPT !.paletteID = PALETTE_ID_CUSTOM]),
                          r.sizeRead)
CasePalette(L) ==
    PaletteCase(chunk_v6_read_palette(L, L.chunkID = P3S_CHUNK_ID_PALETTE_LEGACY))

\* case P3S_CHUNK_ID_PALETTE_ID
PaletteIdCase(L, r) ==
    CaseEnd([L EXCEPT !.pos = r.pos, !.paletteID = r.paletteID], r.sizeRead)
CasePaletteId(L) == PaletteIdCase(L, chunk_v6_read_palette_id(L))

\* case P3S_CHUNK_ID_SHAPE
\* lines 2152-2163
\* (the asset pushed at the head of the list)
ShapeAssetPushedFirst(L) ==
    IF WantsShape(L.filterMask)
    THEN [L EXCEPT !.list = <<[type |-> AssetType_Shape, ptr |-> L.lastShape]>> \o L.list]
    ELSE L
ShapeAsset(L) ==
    IF WantsShape(L.filterMask)
    THEN [L EXCEPT !.list = Append(L.list, [type |-> AssetType_Shape,
                                            ptr |-> L.lastShape])]
    ELSE L
ShapeCase(r) ==
    IF r.sizeRead = 0 THEN CaseEnd(r.L, r.sizeRead)
    ELSE CaseEnd(ShapeAsset(r.L), r.sizeRead)
CaseShape(L) == ShapeCase(chunk_v6_read_shape(L))

\* default: v5 chunks we don't need to read
SkipCase(L, r) ==
    [L EXCEPT !.pos = r.pos, !.totalSizeRead = L.totalSizeRead + r.skippedBytes]
CaseSkip(L) == SkipCase(L, chunk_v6_with_v5_header_skip(L))

\* the switch on the chunk id (lines 2082-2173)
ChunkSwitch(L) ==
    CASE L.chunkID = P3S_CHUNK_ID_NONE -> CaseNone(L)
      [] L.chunkID \in {P3S_CHUNK_ID_PALETTE_LEGACY, P3S_CHUNK_ID_PALETTE} -> CasePalette(L)
      [] L.chunkID = P3S_CHUNK_ID_PALETTE_ID -> CasePaletteId(L)
      [] L.chunkID = P3S_CHUNK_ID_SHAPE -> CaseShape(L)
      [] OTHER -> CaseSkip(L)

\* one iteration of the loop (lines 2079-2173)
LoadStep(L) == ChunkSwitch(ReadChunkId(L))

\* lines 2176-2186
LoadEnd(L) ==
    [L EXCEPT !.palettes = IF L.serializedPalette # NULL /\ ~L.serializedPaletteAssigned
                           THEN ReleasePalette(L.palettes, L.serializedPalette)
                           ELSE L.palettes,
              !.shapes = <<>>,
              !.result = "list"]

\* the number of top-level loop iterations followed in one load
MaxChunks == 12

RECURSIVE LoadLoop(_)
LoadLoop(L) == IF LoopCond(L) /\ L.iterations < MaxChunks THEN LoadLoop(LoadStep(L))
               ELSE LoadEnd(L)

\* the whole load of a stream, as one function of its inputs
LoadFromHeader(L) == IF L.result = "null" THEN L ELSE LoadLoop(L)
LoadFromStart(L) == IF L.result = "null" THEN L ELSE LoadFromHeader(LoadAssetsHeader(L))
LoadAll(stream, filterMask, lighting) ==
    LoadFromStart(LoadStart(stream, ReadMagicAndVersion(stream), filterMask, lighting))

-----------------------------------------------------------------------------
(* The load, one action per step: the prefix, the header, one action per   *)
(* case of the chunk switch, and the epilogue.  The stream is the buffer   *)
(* the save returned, or the input file.                                   *)

InputStream == IF pc = "saved" THEN SubSeq(sv.buf, 1, sv.outBufferSize) ELSE file.bytes

LoadMagicVersion ==
    /\ pc \in {"saved", "load"}
    /\ ld' = LoadStart(InputStream, ReadMagicAndVersion(InputStream), file.filterMask,
                       file.lighting)
    /\ pc' = IF ld'.result = "null" THEN "loaded" ELSE "load_header"
    /\ UNCHANGED <<saveFrame, fw, sv, pv>>

LoadHeader ==
    /\ pc = "load_header"
    /\ ld' = LoadAssetsHeader(ld)
    /\ pc' = IF ld'.result = "null" THEN "loaded" ELSE "load_loop"
    /\ UNCHANGED <<saveFrame, fw, sv, pv>>

\* the loop runs once more and reads a chunk id in ids
LoopReads(ids) ==
    /\ pc = "load_loop"
    /\ LoopCond(ld)
    /\ ld.iterations < MaxChunks
    /\ chunk_v6_read_identifier(ld).id \in ids

HandledChunkIds == {P3S_CHUNK_ID_NONE, P3S_CHUNK_ID_PALETTE_LEGACY, P3S_CHUNK_ID_PALETTE,
                    P3S_CHUNK_ID_PALETTE_ID, P3S_CHUNK_ID_SHAPE}

LoadChunkNone ==
    /\ LoopReads({P3S_CHUNK_ID_NONE})
    /\ ld' = LoadStep(ld)
    /\ UNCHANGED <<pc, saveFrame, fw, sv, pv>>

LoadChunkPalette ==
    /\ LoopReads({P3S_CHUNK_ID_PALETTE_LEGACY, P3S_CHUNK_ID_PALETTE})
    /\ ld' = LoadStep(ld)
    /\ UNCHANGED <<pc, saveFrame, fw, sv, pv>>

LoadChunkPaletteId ==
    /\ LoopReads({P3S_CHUNK_ID_PALETTE_ID})
    /\ ld' = LoadStep(ld)
    /\ UNCHANGED <<pc, saveFrame, fw, sv, pv>>

LoadChunkShape ==
    /\ LoopReads({P3S_CHUNK_ID_SHAPE})
    /\ ld' = LoadStep(ld)
    /\ UNCHANGED <<pc, saveFrame, fw, sv, pv>>

LoadChunkSkip ==
    /\ LoopReads((0..255) \ HandledChunkIds)
    /\ ld' = LoadStep(ld)
    /\ UNCHANGED <<pc, saveFrame, fw, sv, pv>>

LoadFinish ==
    /\ pc = "load_loop"
    /\ ~LoopCond(ld)
    /\ ld' = LoadEnd(ld)
    /\ pc' = "loaded"
    /\ UNCHANGED <<saveFrame, fw, sv, pv>>

LoadNext == \/ LoadMagicVersion
            \/ LoadHeader
            \/ LoadChunkNone
            \/ LoadChunkPalette
            \/ LoadChunkPaletteId
            \/ LoadChunkShape
            \/ LoadChunkSkip
            \/ LoadFinish

-----------------------------------------------------------------------------
(* get_preview_data and serialization_v6_get_preview_data, one action per  *)
(* step.  The stream is the file the file writer produced, or the input    *)
(* file.  P holds the locals; result: "running", "true" or "false".        *)

NoPreview == [result |-> "none"]

PreviewStream == IF fw.returned /\ fw.ret THEN fw.bytes ELSE file.bytes

PreviewLocals(stream, pos, result) ==
    [stream |-> stream, pos |-> pos, totalSize |-> 0, totalSizeRead |-> 0,
     sizeRead |-> 0, chunkID |-> 0, imageData |-> <<>>, size |-> 0,
     skips |-> <<>>, iterations |-> 0, result |-> result]

\* get_preview_data: magic bytes and format version
PreviewStart(stream, m) ==
    PreviewLocals(stream, m.pos, IF m.ok THEN "running" ELSE "false")

\* lines 399-419: compression algo and total size
PreviewDataHeader(P) ==
    IF ~stream_can_read(P, 1) THEN [P EXCEPT !.result = "false"]
    ELSE IF At(P.stream, P.pos) >= P3sCompressionMethod_COUNT
    THEN [P EXCEPT !.pos = P.pos + 1, !.result = "false"]
    ELSE IF ~stream_can_read(P, 5) THEN [P EXCEPT !.pos = P.pos + 1, !.result = "false"]
    ELSE [P EXCEPT !.pos = P.pos + 5, !.totalSize = RdU32(P.stream, P.pos + 1)]

\* chunk_v6_skip: [skippedBytes, pos]
\* (skipping by the V5 header: the payload only)
SkipV6PayloadOnly(P, r) ==
    [skippedBytes |-> 4 + r.size,
     pos |-> stream_skip([P EXCEPT !.pos = r.pos], r.size)]
SkipV6(P, r) ==
    [skippedBytes |-> CHUNK_V6_HEADER_NO_ID_SIZE + r.size,
     pos |-> stream_skip([P EXCEPT !.pos = r.pos],
                         r.size + CHUNK_V6_HEADER_NO_ID_SKIP_SIZE)]
chunk_v6_skip(P) == SkipV6(P, chunk_v6_read_size(P))

\* chunk_v6_read_preview_image: [sizeRead, imageData, size, pos]
PreviewImageRead(P, r) ==
    IF r.size = 0
    THEN [sizeRead |-> 0, imageData |-> <<>>, size |-> 0, pos |-> r.pos]
    ELSE IF ~stream_can_read([P EXCEPT !.pos = r.pos], r.size)
    THEN [sizeRead |-> 0, imageData |-> <<>>, size |-> 0, pos |-> r.pos]
    ELSE [sizeRead |-> r.size + 4, imageData |-> RdBytes(P.stream, r.pos, r.size),
          size |-> r.size, pos |-> r.pos + r.size]
chunk_v6_read_preview_image(P) == PreviewImageRead(P, chunk_v6_read_size(P))

\* lines 430-431
PreviewIdRead(P, r) ==
    [P EXCEPT !.chunkID = r.id, !.pos = r.pos, !.totalSizeRead = P.totalSizeRead + 1,
              !.iterations = P.iterations + 1]

\* case P3S_CHUNK_ID_PREVIEW
PreviewFound(P, r) ==
    IF r.sizeRead = 0 THEN [P EXCEPT !.pos = r.pos, !.sizeRead = 0, !.result = "false"]
    ELSE [P EXCEPT !.pos = r.pos, !.sizeRead = r.sizeRead, !.imageData = r.imageData,
                   !.size = r.size, !.result = "true"]

\* the skipping cases (framing: the header the chunk was skipped by; from:
\* the offset of the chunk id)
PreviewSkipped(P, r, framing, from) ==
    [P EXCEPT !.pos = r.pos, !.totalSizeRead = P.totalSizeRead + r.skippedBytes,
              !.skips = Append(P.skips, [id |-> P.chunkID, framing |-> framing,
                                         from |-> from, to |-> r.pos])]

V6SkippedIds == {P3S_CHUNK_ID_SHAPE, P3S_CHUNK_ID_PALETTE, P3S_CHUNK_ID_PALETTE_LEGACY,
                 P3S_CHUNK_ID_PALETTE_ID}

\* the switch on the chunk id (lines 433-452)
PreviewSwitch(P) ==
    CASE P.chunkID = P3S_CHUNK_ID_NONE -> [P EXCEPT !.result = "false"]
      [] P.chunkID = P3S_CHUNK_ID_PREVIEW -> PreviewFound(P, chunk_v6_read_preview_image(P))
      [] P.chunkID \in V6SkippedIds -> PreviewSkipped(P, chunk_v6_skip(P), "V6", P.pos - 1)
      [] OTHER -> PreviewSkipped(P, chunk_v6_with_v5_header_skip(P), "V5", P.pos - 1)

PreviewStep(P) == PreviewSwitch(PreviewIdRead(P, chunk_v6_read_identifier(P)))

PreviewMagicVersion ==
    /\ pc = "loaded"
    /\ pv' = PreviewStart(PreviewStream, ReadMagicAndVersion(PreviewStream))
    /\ pc' = IF pv'.result = "false" THEN "previewed" ELSE "preview_header"
    /\ UNCHANGED <<saveFrame, fw, sv, ld>>

PreviewHeader ==
    /\ pc = "preview_header"
    /\ pv' = PreviewDataHeader(pv)
    /\ pc' = IF pv'.result = "false" THEN "previewed" ELSE "preview_loop"
    /\ UNCHANGED <<saveFrame, fw, sv, ld>>

\* the loop runs once more and reads a chunk id in ids
PreviewReads(ids) ==
    /\ pc = "preview_loop"
    /\ pv.totalSizeRead < pv.totalSize
    /\ pv.iterations < MaxChunks
    /\ chunk_v6_read_identifier(pv).id \in ids

PreviewChunkNone ==
    /\ PreviewReads({P3S_CHUNK_ID_NONE})
    /\ pv' = PreviewStep(pv)
    /\ pc' = "previewed"
    /\ UNCHANGED <<saveFrame, fw, sv, ld>>

PreviewChunkPreview ==
    /\ PreviewReads({P3S_CHUNK_ID_PREVIEW})
    /\ pv' = PreviewStep(pv)
    /\ pc' = "previewed"
    /\ UNCHANGED <<saveFrame, fw, sv, ld>>

PreviewChunkSkipV6 ==
    /\ PreviewReads(V6SkippedIds)
    /\ pv' = PreviewStep(pv)
    /\ UNCHANGED <<pc, saveFrame, fw, sv, ld>>

PreviewChunkSkipV5 ==
    /\ PreviewReads((1..(P3S_CHUNK_ID_MAX - 1)) \ (V6SkippedIds \cup {P3S_CHUNK_ID_PREVIEW}))
    /\ pv' = PreviewStep(pv)
    /\ UNCHANGED <<pc, saveFrame, fw, sv, ld>>

\* line 455: the loop ended without a PREVIEW chunk
PreviewNotFound ==
    /\ pc = "preview_loop"
    /\ pv.totalSizeRead >= pv.totalSize
    /\ pv' = [pv EXCEPT !.result = "false"]
    /\ pc' = "previewed"
    /\ UNCHANGED <<saveFrame, fw, sv, ld>>

PreviewNext == \/ PreviewMagicVersion
               \/ PreviewHeader
               \/ PreviewChunkNone
               \/ PreviewChunkPreview
               \/ PreviewChunkSkipV6
               \/ PreviewChunkSkipV5
               \/ PreviewNotFound

-----------------------------------------------------------------------------
(* Inputs: the scenes handed to the save. *)

Cells(start, size) ==
    { <<start[1] + a, start[2] + b, start[3] + c>> :
        a \in 0..(size[1] - 1), b \in 0..(size[2] - 1), c \in 0..(size[3] - 1) }

\* the blocks of a shape from the cell values listed in x, y, z loop order
BlocksOf(start, size, vals) ==
    [c \in Cells(start, size) |->
        vals[((c[1] - start[1]) * size[2] + (c[2] - start[2])) * size[3]
             + (c[3] - start[3]) + 1]]

\* a one-block shape using palette pal
BaseShape(pal) ==
    [isShape |-> TRUE, pal |-> pal, start |-> <<0, 0, 0>>, bbSize |-> <<1, 1, 1>>,
     blocks |-> BlocksOf(<<0, 0, 0>>, <<1, 1, 1>>, <<0>>), name |-> <<>>,
     position |-> float3_zero, rotation |-> float3_zero, scale |-> <<1, 1, 1>>,
     pivot |-> float3_zero, pois |-> <<>>, rots |-> <<>>,
     hasCollider |-> FALSE, colliderMin |-> float3_zero, colliderMax |-> float3_zero,
     hidden |-> FALSE, bakedLighting |-> FALSE]

RECURSIVE SortedSeq(_)
SortedSeq(S) == IF S = {} THEN <<>>
                ELSE LET m == CHOOSE x \in S : \A y \in S : x <= y
                     IN  <<m>> \o SortedSeq(S \ {m})

\* parents[i] is the parent of node i + 1
ChildrenOf(parents) ==
    [n \in 1..(Len(parents) + 1) |->
        SortedSeq({k \in 2..(Len(parents) + 1) : parents[k - 1] = n})]

PalA(order) == MkPalette(<<11, 22>>, <<0, 1>>, order)
PalB(order) == MkPalette(<<33, 44>>, <<1, 0>>, order)

NodeNames == <<97, 98>>

\* a tree of one-block shapes with distinct local transforms; named: the
\* set of nodes that carry a name
TreeScene(parents, own, named) ==
    [nodes |-> [n \in 1..(Len(parents) + 1) |->
                  [BaseShape(IF n > 1 /\ own THEN 2 ELSE 1) EXCEPT
                      !.position = <<n, 0, -n>>, !.rotation = <<0, 90 * n, 0>>,
                      !.scale = <<1, 1, n>>,
                      !.name = IF n \in named THEN SubSeq(NodeNames, 1, 1 + (n % 2))
                               ELSE <<>>]],
     children |-> ChildrenOf(parents),
     palettes |-> <<PalA(<<1, 2>>), PalB(<<1, 2>>)>>]

\* a root of two cells and an optional child: 0 none, 1 sharing the root's
\* palette, 2 and 3 with a palette of its own
PaletteScene(rootOrder, rootVals, child) ==
    LET root == [BaseShape(1) EXCEPT !.bbSize = <<1, 1, 2>>,
                    !.blocks = BlocksOf(<<0, 0, 0>>, <<1, 1, 2>>, rootVals)]
        kid == [BaseShape(IF child = 1 THEN 1 ELSE 2) EXCEPT !.bbSize = <<1, 1, 2>>,
                    !.blocks = BlocksOf(<<0, 0, 0>>, <<1, 1, 2>>, <<0, 1>>)]
    IN  [nodes |-> IF child = 0 THEN <<root>> ELSE <<root, kid>>,
         children |-> IF child = 0 THEN << <<>> >> ELSE << <<2>>, <<>> >>,
         palettes |-> <<PalA(rootOrder),
                        PalB(IF child = 3 THEN <<2, 1>> ELSE <<1, 2>>)>>]

\* one shape whose occupied box starts at start, with a point, a point
\* rotation and a pivot
FramingScene(start, name) ==
    [nodes |-> << [BaseShape(1) EXCEPT
                     !.start = start, !.bbSize = <<1, 2, 2>>,
                     !.blocks = BlocksOf(start, <<1, 2, 2>>,
                                         <<0, SHAPE_COLOR_INDEX_AIR_BLOCK, 1, 0>>),
                     !.name = name,
                     !.pivot = <<start[1] + 1, start[2] + 1, start[3] + 1>>,
                     !.pois = << [key |-> <<102, 111, 111>>,
                                  value |-> <<start[1] + 5, start[2] - 5, 7>>] >>,
                     !.rots = << [key |-> <<102, 111, 111>>,
                                  value |-> <<0, 45, -90>>] >>] >>,
     children |-> << <<>> >>,
     palettes |-> <<PalA(<<1, 2>>), PalB(<<1, 2>>)>>]

\* a root with the optional parts set, and a child transform that is no shape
ExtrasScene(flag) ==
    [nodes |-> << [BaseShape(1) EXCEPT
                     !.hasCollider = flag, !.colliderMin = <<-1, -1, -1>>,
                     !.colliderMax = <<2, 2, 2>>, !.hidden = flag,
                     !.bakedLighting = flag],
                  [BaseShape(1) EXCEPT !.isShape = ~flag],
                  BaseShape(1) >>,
     children |-> << <<2>>, <<3>>, <<>> >>,
     palettes |-> <<PalA(<<1, 2>>), PalB(<<1, 2>>)>>]

EmptyScene == [nodes |-> <<>>, children |-> <<>>, palettes |-> <<>>]

Trees == { <<>>, <<1>>, <<1, 1>>, <<1, 2>>, <<1, 1, 2>>, <<1, 2, 1>>, <<1, 2, 2>>,
           <<1, 2, 3>> }
Orders == { <<1, 2>>, <<2, 1>> }
\* the first unwritten byte and the following ones
JunkValues == { [id |-> i, fill |-> f, file |-> g] :
                  i \in {0, P3S_CHUNK_ID_SHAPE_BLOCKS, P3S_CHUNK_ID_SHAPE_PARENT_ID,
                          P3S_CHUNK_ID_SHAPE_PIVOT, P3S_CHUNK_ID_OBJECT_IS_HIDDEN},
                  f \in {0, 1}, g \in {0, 1} }
NoJunk == [id |-> 0, fill |-> 0, file |-> 0]

SceneFile(filterMask, lighting) ==
    [kind |-> "scene", bytes |-> <<>>, base |-> <<>>, injected |-> -1,
     filterMask |-> filterMask, lighting |-> lighting]

SceneInput(sc, preview, artist, j, filterMask, lighting) ==
    [pc |-> "fsave", scene |-> sc, previewData |-> preview, artistPalette |-> artist,
     junk |-> j, fault |-> NoFault, file |-> SceneFile(filterMask, lighting)]

\* saves during which one step fails: the write of the preview chunk,
\* compress() of the artist palette or of the n-th shape, malloc of the buffer
Faults == { [op |-> "preview", n |-> 0], [op |-> "palette", n |-> 0],
            [op |-> "buf", n |-> 0] }
          \cup { [op |-> "shape", n |-> k] : k \in 1..3 }
FaultInput(sc, preview, artist, f) ==
    [SceneInput(sc, preview, artist, NoJunk, AssetType_Any, FALSE) EXCEPT !.fault = f]
FaultInputs ==
    { FaultInput(TreeScene(<<1, 1>>, FALSE, {}), prev, ap, f) :
        prev \in { <<>>, <<1, 2, 3>> }, ap \in { NoPalette, PalB(<<2, 1>>) },
        f \in Faults }

SceneInputs ==
    { SceneInput(TreeScene(t, own, {}), <<>>, NoPalette, NoJunk, AssetType_Any, FALSE) :
        t \in Trees, own \in BOOLEAN }
    \cup
    { SceneInput(TreeScene(t, FALSE, {Len(t) + 1}), <<>>, NoPalette, j,
                 AssetType_Any, FALSE) :
        t \in { <<1>>, <<1, 2>> }, j \in JunkValues }
    \cup
    { SceneInput(PaletteScene(o, v, c), <<>>, NoPalette, NoJunk, AssetType_Any, FALSE) :
        o \in Orders, v \in { <<0, 1>>, <<1, SHAPE_COLOR_INDEX_AIR_BLOCK>> },
        c \in 0..3 }
    \cup
    { SceneInput(FramingScene(st, <<>>), <<>>, NoPalette, NoJunk, AssetType_Any, FALSE) :
        st \in { <<0, 0, 0>>, <<2, 3, 4>>, <<-1, 0, 2>> } }
    \cup
    { SceneInput(FramingScene(st, <<97>>), <<>>, NoPalette, j, AssetType_Any, FALSE) :
        st \in { <<2, 3, 4>> }, j \in JunkValues }
    \cup
    { SceneInput(TreeScene(<<1>>, TRUE, {}), <<>>, PalB(<<2, 1>>), NoJunk, fm, FALSE) :
        fm \in { AssetType_Any, AssetType_Shape, AssetType_Palette, AssetType_Object } }
    \cup
    { SceneInput(ExtrasScene(flag), prev, ap, NoJunk, fm, li) :
        flag \in BOOLEAN, prev \in { <<>>, <<1, 2, 3>> },
        ap \in { NoPalette, PalB(<<2, 1>>) },
        fm \in { AssetType_Any, AssetType_Shape, AssetType_Palette },
        li \in BOOLEAN }

-----------------------------------------------------------------------------
(* Inputs: files built chunk by chunk, as another writer could produce them. *)

V5Chunk(id, payload) == U8(id) \o U32(Len(payload)) \o payload
V6Stored(id, stored, isCompressed, uncompressedSize) ==
    U8(id) \o U32(Len(stored)) \o U8(isCompressed) \o U32(uncompressedSize) \o stored
V6Chunk(id, payload) == V6Stored(id, compress(payload), 1, Len(payload))
V6RawChunk(id, payload) == V6Stored(id, payload, 0, Len(payload))
SubChunk(id, payload) == SubHeader(id, Len(payload)) \o payload

\* the RGBA colors, 4 bytes each
ColorBytes(colors) ==
    [i \in 1..(4 * Len(colors)) |-> U32(colors[((i - 1) \div 4) + 1])[((i - 1) % 4) + 1]]
PaletteBytes(colors) ==
    U8(Len(colors)) \o ColorBytes(colors) \o [i \in 1..Len(colors) |-> 0]
LegacyPaletteBytes(colors) ==
    <<1, 1>> \o U16(Len(colors)) \o <<0, 0>> \o ColorBytes(colors)
    \o [i \in 1..Len(colors) |-> 0]

\* the local transform stored for a shape declared with parentId
StoredTransform(parentId) ==
    << <<parentId, 2, -3>>, <<0, 90, 0>>, <<1, 1, 1 + parentId>> >>

\* a SHAPE envelope: size 1 x 1 x Len(vals), optional parent id and transform,
\* optional embedded palette, blocks
ShapeEnvelope(parentId, colors, vals) ==
    SubChunk(P3S_CHUNK_ID_SHAPE_SIZE, U16(1) \o U16(1) \o U16(Len(vals)))
    \o (IF parentId # 0
        THEN SubChunk(P3S_CHUNK_ID_SHAPE_PARENT_ID, U16(parentId))
             \o SubChunk(P3S_CHUNK_ID_SHAPE_TRANSFORM,
                         Float3(StoredTransform(parentId)[1])
                         \o Float3(StoredTransform(parentId)[2])
                         \o Float3(StoredTransform(parentId)[3]))
        ELSE <<>>)
    \o (IF colors # <<>> THEN SubChunk(P3S_CHUNK_ID_SHAPE_PALETTE, PaletteBytes(colors))
        ELSE <<>>)
    \o SubChunk(P3S_CHUNK_ID_SHAPE_BLOCKS, vals)

ShapeChunk(parentId, colors, vals) ==
    V6Chunk(P3S_CHUNK_ID_SHAPE, ShapeEnvelope(parentId, colors, vals))

FileOfBody(body) ==
    MAGIC_BYTES \o U32(6) \o U8(P3sCompressionMethod_ZIP) \o U32(Len(body)) \o body
FileOf(chunks) == FileOfBody(Flatten(chunks))

InsertAt(chunks, k, c) == SubSeq(chunks, 1, k) \o <<c>> \o SubSeq(chunks, k + 1, Len(chunks))

FileInput(kind, bytes, base, injected, filterMask, lighting) ==
    [pc |-> "load", scene |-> EmptyScene, previewData |-> <<>>,
     artistPalette |-> NoPalette, junk |-> NoJunk, fault |-> NoFault,
     file |-> [kind |-> kind, bytes |-> bytes, base |-> base, injected |-> injected,
               filterMask |-> filterMask, lighting |-> lighting]]

\* palettes of n entries: entry i has color 100 + i
Colors(n) == [i \in 1..n |-> 100 + i]

\* the chunks files are assembled from
ChunkOf(item) ==
    CASE item = "V"    -> V5Chunk(P3S_CHUNK_ID_PREVIEW, <<9, 9>>)
      [] item = "V0"   -> V5Chunk(P3S_CHUNK_ID_PREVIEW, <<>>)
      [] item = "W"    -> V5Chunk(P3S_CHUNK_ID_PREVIEW, <<8>>)
      [] item = "U8"   -> V5Chunk(P3S_CHUNK_ID_SHAPE_POINT_ROTATION, <<1, 2, 3>>)
      [] item = "P2"   -> V6Chunk(P3S_CHUNK_ID_PALETTE, PaletteBytes(<<11, 22>>))
      [] item = "P254" -> V6Chunk(P3S_CHUNK_ID_PALETTE, PaletteBytes(Colors(254)))
      [] item = "P255" -> V6Chunk(P3S_CHUNK_ID_PALETTE, PaletteBytes(Colors(255)))
      [] item = "L2"   -> V6Chunk(P3S_CHUNK_ID_PALETTE_LEGACY,
                                  LegacyPaletteBytes(<<11, 22>>))
      [] item = "I0"   -> V6RawChunk(P3S_CHUNK_ID_PALETTE_ID, <<PALETTE_ID_CUSTOM>>)
      [] item = "I2"   -> V6RawChunk(P3S_CHUNK_ID_PALETTE_ID, <<PALETTE_ID_2021>>)
      [] item = "S"    -> ShapeChunk(0, <<>>, <<0, 1>>)
      [] item = "S1"   -> ShapeChunk(1, <<>>, <<1, 0>>)
      [] item = "Sp"   -> ShapeChunk(0, <<33, 44>>, <<0, 1>>)
      [] item = "Sq"   -> ShapeChunk(1, <<55, 66>>, <<1, 1>>)
      \* shapes with a block whose color index no palette of 2 entries holds
      [] item = "Sx"   -> ShapeChunk(0, <<33, 44>>, <<0, 9>>)
      [] item = "Sy"   -> ShapeChunk(0, <<>>, <<0, 9>>)
      \* chunks whose header announces more bytes than the payload has: raw
      \* (isCompressed = 0) and compressed
      [] item = "Ir"   -> V6Stored(P3S_CHUNK_ID_PALETTE_ID, <<PALETTE_ID_2021>>, 0, 5)
      [] item = "Sr"   -> V6Stored(P3S_CHUNK_ID_SHAPE,
                                   ShapeEnvelope(0, <<33, 44>>, <<0, 1>>), 0,
                                   Len(ShapeEnvelope(0, <<33, 44>>, <<0, 1>>)) + 4)
      [] item = "Sz"   -> V6Stored(P3S_CHUNK_ID_SHAPE,
                                   compress(ShapeEnvelope(0, <<33, 44>>, <<0, 1>>)), 1,
                                   Len(ShapeEnvelope(0, <<33, 44>>, <<0, 1>>)) + 4)
      \* malformed chunks
      [] item = "X0"   -> <<0>>
      [] item = "X200" -> V5Chunk(200, <<1>>)
      [] item = "Xcut" -> U8(P3S_CHUNK_ID_SHAPE) \o U32(50) \o U8(1) \o U32(60)
                          \o <<ZLIB_HEADER, 1, 2>>
      [] item = "Xzip" -> V6Stored(P3S_CHUNK_ID_SHAPE, <<7, 7, 7>>, 1, 10)
      [] item = "Xenv" -> V6Chunk(P3S_CHUNK_ID_SHAPE,
                                  SubChunk(P3S_CHUNK_ID_SHAPE_BLOCKS, <<0>>))
      [] item = "Xpal" -> U8(P3S_CHUNK_ID_PALETTE) \o U32(40) \o U8(1) \o U32(11)
                          \o <<ZLIB_HEADER>>
      [] item = "Xid"  -> V6Stored(P3S_CHUNK_ID_PALETTE_ID, <<>>, 0, 0)

ChunksOf(items) == [i \in 1..Len(items) |-> ChunkOf(items[i])]

\* files with one chunk of an id the loader does not know, inserted at a
\* boundary of a well-formed file
InjectBases == { <<"V", "Sp">>, <<"P2", "S">>, <<"Sp", "S1">> }
InjectIds == {0, 4, 14, 17, 24, 25, 99, 255}
Hello == <<104, 101, 108, 108, 111>>
InjectInputs ==
    { FileInput("inject", FileOf(InsertAt(ChunksOf(b), k, V5Chunk(id, payload))),
                FileOf(ChunksOf(b)), id, AssetType_Any, FALSE) :
        b \in InjectBases, k \in 0..2, id \in InjectIds, payload \in { <<>>, Hello } }

\* files that end in a malformed chunk
ErrorInputs ==
    { FileInput("error", FileOf(ChunksOf(pre \o <<x>>)), <<>>, -1, AssetType_Any, FALSE) :
        pre \in { <<>>, <<"Sp">>, <<"P2", "S">> },
        x \in { "X0", "X200", "Xcut", "Xzip", "Xenv", "Xpal", "Xid" } }

\* files whose shapes declare the parent ids ps
ParentFile(ps) ==
    FileOf([i \in 1..Len(ps) |-> ShapeChunk(ps[i], <<33, 44>>, <<0, 1>>)])
ParentInputs ==
    { FileInput("parent", ParentFile(ps), <<>>, -1, AssetType_Any, FALSE) :
        ps \in { <<a>> : a \in 0..2 } \cup { <<a, b>> : a \in 0..1, b \in 0..3 }
               \cup { <<0, 1, c>> : c \in 0..4 } }

\* files in each compatibility mode
ModeFiles == { <<"S">>, <<"I2", "S">>, <<"I0", "S">>, <<"P2", "S">>, <<"P2", "S", "S1">>,
               <<"S", "P2">>, <<"S", "P2", "S1">>, <<"L2", "S">>, <<"P254", "S">>,
               <<"P255", "S">>, <<"P255", "S", "S1">>, <<"Sp">>, <<"Sp", "S1">>,
               <<"S", "Sq">>, <<"S", "Sq", "S1">>, <<"Sp", "Sq">>, <<"P2", "Sp", "S1">>,
               <<"P2", "S", "Sq">>, <<"Sp", "S1", "Sq", "S1">>, <<"P2", "P2", "S">>,
               <<"V", "Sp", "V">>, <<"P2", "Sp", "Sq">>, <<"Sp", "P2", "Sq">>,
               <<"Sp", "Sq", "P2">>, <<"P255", "Sp">>, <<"L2", "Sp", "I2", "Sq">>,
               <<"S", "P2", "S1", "Sq">>, <<"Sx">>, <<"Sy">>, <<"I2", "Sy">>,
               <<"P2", "Sy">>, <<"P255", "Sy">>, <<"Sp", "Sy">>, <<"Ir", "S">>,
               <<"Sr">>, <<"Sz">> }
FilterMasks == { AssetType_Any, AssetType_Shape, AssetType_Palette, AssetType_Object }
ModeInputs ==
    { FileInput("mode", FileOf(ChunksOf(f)), <<>>, -1, fm, FALSE) :
        f \in ModeFiles, fm \in FilterMasks }

\* files the prefix or the header rejects
\* the sub-chunks envelopes are assembled from (shapes of size 1 x 1 x 2)
SubOf(item) ==
    CASE item = "z" -> SubChunk(P3S_CHUNK_ID_SHAPE_SIZE, U16(1) \o U16(1) \o U16(2))
      [] item = "b" -> SubChunk(P3S_CHUNK_ID_SHAPE_BLOCKS, <<0, 1>>)
      [] item = "p" -> SubChunk(P3S_CHUNK_ID_SHAPE_PALETTE, PaletteBytes(<<33, 44>>))
      [] item = "v" -> SubChunk(P3S_CHUNK_ID_SHAPE_PIVOT, Float3(<<1, 2, 3>>))
      [] item = "h" -> SubChunk(P3S_CHUNK_ID_OBJECT_IS_HIDDEN, <<1>>)
      [] item = "l" -> SubChunk(P3S_CHUNK_ID_SHAPE_BAKED_LIGHTING,
                                [i \in 1..(2 * VERTEX_LIGHT_STRUCT_SIZE) |-> 0])
SubsOf(items) == [i \in 1..Len(items) |-> SubOf(items[i])]
\* a file of one SHAPE chunk with these sub-chunks
EnvelopeFile(subs) == FileOf(<<V6Chunk(P3S_CHUNK_ID_SHAPE, Flatten(subs))>>)

\* envelopes with one sub-chunk of an id the reader has no case for, framed
\* u8 id | u32 size | payload, and envelopes that end 1 to 3 bytes after such
\* an id
SubInjectBase == <<"z", "p", "b">>
SubInjectIds == {9, 14, 99}
SubInjectInputs ==
    { FileInput("subinject",
                EnvelopeFile(InsertAt(SubsOf(SubInjectBase), k, SubChunk(id, payload))),
                EnvelopeFile(SubsOf(SubInjectBase)), id, AssetType_Any, FALSE) :
        k \in 0..3, id \in SubInjectIds, payload \in { <<>>, Hello } }
    \cup
    { FileInput("subcut",
                EnvelopeFile(Append(SubsOf(SubInjectBase), <<id>> \o rest)),
                EnvelopeFile(SubsOf(SubInjectBase)), id, AssetType_Any, FALSE) :
        id \in SubInjectIds, rest \in { <<>>, <<7>>, <<7, 0, 0>> } }

\* envelopes with a sub-chunk of fixed layout (SHAPE_PIVOT: 12 bytes,
\* OBJECT_IS_HIDDEN: 1 byte) that declares another size than its payload has
SubSizeCases == { <<P3S_CHUNK_ID_SHAPE_PIVOT, Float3(<<1, 2, 3>>), 0>>,
                  <<P3S_CHUNK_ID_SHAPE_PIVOT, Float3(<<1, 2, 3>>), 16>>,
                  <<P3S_CHUNK_ID_OBJECT_IS_HIDDEN, <<1>>, 0>>,
                  <<P3S_CHUNK_ID_OBJECT_IS_HIDDEN, <<1>>, 4>> }
SubSizeInputs ==
    { FileInput("subsize",
                EnvelopeFile(InsertAt(SubsOf(<<"z", "b">>), k,
                                      SubHeader(x[1], x[3]) \o x[2])),
                EnvelopeFile(InsertAt(SubsOf(<<"z", "b">>), k, SubChunk(x[1], x[2]))),
                x[1], AssetType_Any, FALSE) :
        x \in SubSizeCases, k \in 1..2 }

\* files whose total size field is not the length of their body, with
\* chunks the loader skips: one that announces more bytes than the stream
\* holds, one cut inside its size field
FileWithTotalSize(totalSize, body) ==
    MAGIC_BYTES \o U32(6) \o U8(P3sCompressionMethod_ZIP) \o U32(totalSize) \o body
SkipBodies ==
    { U8(P3S_CHUNK_ID_SHAPE_SIZE) \o U32(50) \o <<1, 2>>,
      U8(P3S_CHUNK_ID_SHAPE_SIZE) \o <<7, 0>>,
      V5Chunk(P3S_CHUNK_ID_SHAPE_SIZE, <<>>) \o V5Chunk(P3S_CHUNK_ID_SHAPE_SIZE, <<>>)
      \o V5Chunk(P3S_CHUNK_ID_SHAPE_SIZE, <<>>),
      ChunkOf("Sp"),
      V5Chunk(P3S_CHUNK_ID_SHAPE_SIZE, Hello) \o ChunkOf("Sp") }
SkipTotalSizes == {1, 7, 100, TwoTo24 * 127}
SkipInputs ==
    { FileInput("skip", FileWithTotalSize(t, body), <<>>, -1, AssetType_Any, FALSE) :
        t \in SkipTotalSizes, body \in SkipBodies }

\* envelopes with the same sub-chunks in every order
Perms(seq) ==
    { [i \in 1..Len(seq) |-> seq[f[i]]] : f \in Permutations(1..Len(seq)) }
PermBases == { <<"z", "p", "b">>, <<"z", "b", "v", "h">>, <<"z", "b", "l">> }
PermPairs == UNION { { <<b, items>> : items \in Perms(b) } : b \in PermBases }
PermInputs ==
    { FileInput("perm", EnvelopeFile(SubsOf(x[2])), EnvelopeFile(SubsOf(x[1])), -1,
                AssetType_Any, li) :
        x \in PermPairs, li \in BOOLEAN }

\* files with a PREVIEW chunk behind other chunks, with an empty one, with
\* two, with none
PreviewFiles == { <<"P2", "V">>, <<"L2", "I2", "Sp", "V">>, <<"Xzip", "V">>,
                  <<"U8", "P2", "U8", "V", "Sp">>, <<"Sp", "V0">>, <<"V0", "V">>,
                  <<"V", "W">>, <<"Sp", "U8">>, <<"X200", "V">>, <<"P2", "X0", "V">> }
PreviewInputs ==
    { FileInput("preview", FileOf(ChunksOf(f)), <<>>, -1, AssetType_Any, FALSE) :
        f \in PreviewFiles }

HeaderInputs ==
    { FileInput("header", bytes, <<>>, -1, AssetType_Any, FALSE) :
        bytes \in { <<>>, <<67, 85, 66, 90, 72, 34>>, MAGIC_BYTES \o U32(5),
                    MAGIC_BYTES \o U32(6), MAGIC_BYTES \o U32(6) \o U8(2) \o U32(0),
                    MAGIC_BYTES \o U32(6) \o U8(1) \o <<0, 0>>,
                    MAGIC_BYTES \o U32(6) \o U8(0) \o U32(0) } }

\* the save of no shape (shape == NULL), and the file of a header alone
EmptyInputs ==
    { [SceneInput(EmptyScene, <<>>, NoPalette, NoJunk, fm, FALSE) EXCEPT
          !.file.kind = "empty", !.file.bytes = FileOfBody(<<>>)] :
        fm \in FilterMasks }

Inputs == SceneInputs \cup EmptyInputs \cup FaultInputs \cup InjectInputs \cup ErrorInputs \cup ParentInputs
          \cup ModeInputs \cup SubInjectInputs \cup PermInputs \cup PreviewInputs
          \cup HeaderInputs \cup SubSizeInputs \cup SkipInputs

-----------------------------------------------------------------------------
Init ==
    \E inp \in Inputs :
        /\ pc = inp.pc
        /\ scene = inp.scene
        /\ previewData = inp.previewData
        /\ artistPalette = inp.artistPalette
        /\ junk = inp.junk
        /\ file = inp.file
        /\ fault = inp.fault
        /\ fw = NoFile
        /\ sv = [returned |-> FALSE]
        /\ ld = NoLoad
        /\ pv = NoPreview

Next == FileSaveNext \/ SaveNext \/ LoadNext \/ PreviewNext

Spec == Init /\ [][Next]_vars

-----------------------------------------------------------------------------
(* Properties.  Views of the state the properties are stated over.         *)

\* the save of a scene ran to its end and the buffer was loaded back
RoundTrip == pc = "loaded" /\ file.kind = "scene" /\ ld.result = "list"
\* a load ran to the end of the chunk loop
Loaded == pc = "loaded" /\ ld.result = "list"

AllShapes == \A n \in 1..Len(scene.nodes) : scene.nodes[n].isShape
Unnamed == \A n \in 1..Len(scene.nodes) : scene.nodes[n].name = <<>>

\* the nodes of the scene in pre-order, depth first
RECURSIVE Preorder(_)
RECURSIVE PreorderOfKids(_)
Preorder(n) == <<n>> \o PreorderOfKids(scene.children[n])
PreorderOfKids(kids) ==
    IF kids = <<>> THEN <<>>
    ELSE (IF scene.nodes[Head(kids)].isShape THEN Preorder(Head(kids)) ELSE <<>>)
         \o PreorderOfKids(Tail(kids))

ParentNode(n) ==
    CHOOSE p \in 1..Len(scene.nodes) :
        \E i \in 1..Len(scene.children[p]) : scene.children[p][i] = n
IndexIn(seq, x) == CHOOSE i \in 1..Len(seq) : seq[i] = x

\* the top-level chunks of a written buffer, by their framing
FrameLength(buf, pos) ==
    IF At(buf, pos) = P3S_CHUNK_ID_PREVIEW THEN 1 + 4 + RdU32(buf, pos + 1)
    ELSE 1 + CHUNK_V6_HEADER_NO_ID_SIZE + RdU32(buf, pos + 1)
RECURSIVE FrameOffsets(_, _, _)
FrameOffsets(buf, pos, end) ==
    IF pos >= end \/ FrameLength(buf, pos) <= 0 THEN <<>>
    ELSE <<pos>> \o FrameOffsets(buf, pos + FrameLength(buf, pos), end)
FramesEnd(buf, offs) ==
    IF offs = <<>> THEN HeaderSize
    ELSE offs[Len(offs)] + FrameLength(buf, offs[Len(offs)])
IsShapeFrame(buf, pos) == At(buf, pos) = P3S_CHUNK_ID_SHAPE
ShapeFrames(buf, offs) ==
    SelectSeq(offs, LAMBDA pos : IsShapeFrame(buf, pos))
\* the envelope of the SHAPE chunk framed at pos
EnvelopeAt(buf, pos) ==
    uncompress(RdBytes(buf, pos + 1 + CHUNK_V6_HEADER_NO_ID_SIZE, RdU32(buf, pos + 1)),
               RdU32(buf, pos + 6)).data
\* SHAPE_SIZE takes the first 11 bytes of an envelope; SHAPE_ID and
\* SHAPE_PARENT_ID follow, 7 bytes each
WrittenShapeId(env) ==
    IF At(env, 11) = P3S_CHUNK_ID_SHAPE_ID THEN RdU16(env, 16) ELSE 0
WrittenParentId(env) ==
    IF At(env, 18) = P3S_CHUNK_ID_SHAPE_PARENT_ID THEN RdU16(env, 23) ELSE 0

-----------------------------------------------------------------------------
IdsInPreorder(buf, frames, order) ==
    /\ Len(frames) = Len(order)
    /\ Len(sv.shapesBuffers) = Len(order)
    /\ \A k \in 1..Len(frames) :
        /\ sv.shapesBuffers[k].node = order[k]
        /\ WrittenShapeId(EnvelopeAt(buf, frames[k])) = k
        /\ WrittenParentId(EnvelopeAt(buf, frames[k]))
             = (IF k = 1 THEN 0 ELSE IndexIn(order, ParentNode(order[k])))
        /\ k > 1 => WrittenParentId(EnvelopeAt(buf, frames[k])) < k

-----------------------------------------------------------------------------
RECURSIVE ShapeChunksBytes(_)
ShapeChunksBytes(list) ==
    IF list = <<>> THEN 0
    ELSE 1 + CHUNK_V6_HEADER_NO_ID_SIZE + Head(list).shapeCompressedDataSize
         + ShapeChunksBytes(Tail(list))
\* the bytes of all chunks of a finished save
ChunksBytes ==
    (IF sv.hasPreview THEN 1 + 4 + Len(previewData) ELSE 0)
    + (IF sv.hasArtistPalette
       THEN 1 + CHUNK_V6_HEADER_NO_ID_SIZE + sv.paletteCompressedDataSize ELSE 0)
    + ShapeChunksBytes(sv.shapesBuffers)
ChunksCount ==
    (IF sv.hasPreview THEN 1 ELSE 0) + (IF sv.hasArtistPalette THEN 1 ELSE 0)
    + Len(sv.shapesBuffers)

\* the offset of the total size field
TotalSizeAt == MAGIC_BYTES_SIZE + 4 + 1

HeaderOf(buf, totalSize, offs) ==
    /\ SubSeq(buf, 1, MAGIC_BYTES_SIZE) = MAGIC_BYTES
    /\ RdU32(buf, MAGIC_BYTES_SIZE) = 6
    /\ At(buf, MAGIC_BYTES_SIZE + 4) = P3sCompressionMethod_ZIP
    /\ totalSize = ChunksBytes
    /\ Len(offs) = ChunksCount
    /\ FramesEnd(buf, offs) = HeaderSize + totalSize
    /\ sv.outBufferSize = HeaderSize + totalSize

\* C7: header and totalSize.  The returned buffer starts with the magic
\* bytes, u32 6, u8 1 and u32 totalSize; totalSize is the number of bytes of
\* the chunks that follow; outBufferSize is the header size plus totalSize;
\* the field holds 0 until the last chunk is written.
C7_HeaderAndTotalSize ==
    /\ pc = "saved"
       => HeaderOf(sv.buf, RdU32(sv.buf, TotalSizeAt),
                   FrameOffsets(sv.buf, HeaderSize, sv.outBufferSize))
    /\ pc \in {"save_preview", "save_palette", "save_shapes"}
       => RdU32(sv.buf, TotalSizeAt) = 0

\* a finished save with a preview, an artist palette and several shapes
C7_Witness ==
    /\ pc = "saved"
    /\ sv.hasPreview
    /\ sv.hasArtistPalette
    /\ Len(sv.shapesBuffers) = 3
    /\ RdU32(sv.buf, TotalSizeAt) > 0

-----------------------------------------------------------------------------
\* the assets a load returned, with the objects they point to
SameAssets(a, b) ==
    /\ a.result = b.result
    /\ a.list = b.list
    /\ a.palettes = b.palettes
    /\ a.shapeObjs = b.shapeObjs
IsPrefix(s, t) == Len(s) <= Len(t) /\ s = SubSeq(t, 1, Len(s))

\* the ids of the sub-chunks of a SHAPE envelope and of retired chunks: ids
\* the chunk loop knows of and has no case for
SkippedIds == (1..(P3S_CHUNK_ID_MAX - 1))
              \ {P3S_CHUNK_ID_PREVIEW, P3S_CHUNK_ID_PALETTE_LEGACY, P3S_CHUNK_ID_SHAPE,
                 P3S_CHUNK_ID_PALETTE_ID, P3S_CHUNK_ID_PALETTE}
RejectedIds == (0..UINT8_MAX) \ (1..(P3S_CHUNK_ID_MAX - 1))

InjectionSkipped(base) ==
    /\ file.injected \in SkippedIds
       => (SameAssets(ld, base) /\ ld.error = base.error)
    /\ file.injected \in RejectedIds
       => (ld.error /\ IsPrefix(ld.list, base.list))

-----------------------------------------------------------------------------
\* C2 as stated: all-or-nothing load.  When the chunk loop ends on an error
\* the caller receives no asset, and every palette made before the error is
\* released.
C2_AllOrNothing ==
    (pc = "loaded" /\ ld.error)
    => /\ ld.list = <<>>
       /\ \A p \in 1..Len(ld.palettes) : ld.palettes[p].released

-----------------------------------------------------------------------------
SceneColor(node, c) == scene.palettes[node.pal].colors[node.blocks[c] + 1]
LoadedHasColor(s, c, color) ==
    /\ c \in DOMAIN s.blocks
    /\ s.blocks[c] + 1 \in 1..Len(ld.palettes[s.palette].colors)
    /\ ld.palettes[s.palette].colors[s.blocks[c] + 1] = color
SameColors(node, s) ==
    \A c \in DOMAIN node.blocks :
        block_is_solid(node.blocks[c])
        => LoadedHasColor(s, Float3Sub(c, node.start), SceneColor(node, c))

\* C3 as stated: block colors round-trip.  After a save and a load every
\* solid block of every shape (the root, a child with a palette of its own, a
\* child sharing the root's palette) has the color it had before the save,
\* whatever the serialization order of the palettes.
C3_BlockColorsRoundTrip ==
    (RoundTrip /\ Unnamed /\ WantsShape(file.filterMask))
    => /\ Len(ld.shapeObjs) = Len(sv.shapesBuffers)
       /\ \A k \in 1..Len(ld.shapeObjs) :
            SameColors(scene.nodes[sv.shapesBuffers[k].node], ld.shapeObjs[k])

-----------------------------------------------------------------------------
ParentLinked(s, i) ==
    IF s.declaredParentId = 0 THEN s.parent = NULL
    ELSE /\ s.parent = s.declaredParentId
         /\ s.parent < i
         /\ <<s.position, s.rotation, s.scale>> = s.storedTransform

\* C5 as stated: reader parent linkage.  A loaded shape that declares a
\* non-zero parentId is attached to the shape at that 1-based position of the
\* declaration order, a shape declared strictly earlier, with the stored
\* position, rotation and scale; a shape with parentId 0 stays a root.
C5_ParentDeclaredEarlier ==
    Loaded => \A i \in 1..Len(ld.shapeObjs) : ParentLinked(ld.shapeObjs[i], i)

-----------------------------------------------------------------------------
SameTree(order) ==
    /\ Len(ld.shapeObjs) = Len(order)
    /\ \A k \in 1..Len(ld.shapeObjs) :
         IF k = 1 THEN ld.shapeObjs[k].parent = NULL
         ELSE /\ ld.shapeObjs[k].parent = IndexIn(order, ParentNode(order[k]))
              /\ ld.shapeObjs[k].position = scene.nodes[order[k]].position
              /\ ld.shapeObjs[k].rotation = scene.nodes[order[k]].rotation
              /\ ld.shapeObjs[k].scale = scene.nodes[order[k]].scale

\* C6 as stated: tree round-trip.  Loading the buffer saved from a tree of
\* shapes returns as many shapes, in pre-order; each non-root shape is
\* parented to the counterpart of its parent and has the local position,
\* rotation and scale that were written.
C6_TreeRoundTrip ==
    (RoundTrip /\ AllShapes /\ WantsShape(file.filterMask)) => SameTree(Preorder(1))

-----------------------------------------------------------------------------
Framed(node, s) ==
    /\ \A c \in DOMAIN node.blocks :
         block_is_solid(node.blocks[c]) <=> Float3Sub(c, node.start) \in DOMAIN s.blocks
    /\ s.pivot = Float3Sub(node.pivot, node.start)
    /\ \A i \in 1..Len(node.pois) :
         /\ node.pois[i].key \in DOMAIN s.pois
         /\ s.pois[node.pois[i].key] = Float3Sub(node.pois[i].value, node.start)
    /\ \A i \in 1..Len(node.rots) :
         /\ node.rots[i].key \in DOMAIN s.rots
         /\ s.rots[node.rots[i].key] = node.rots[i].value

\* C8 as stated: coordinate framing.  After a save and a load, a block at
\* (x, y, z) of a shape whose occupied box starts at start is at
\* (x, y, z) - start, the pivot and every point position are the saved value
\* minus start, and point rotations are the saved values.
C8_CoordinateFraming ==
    (RoundTrip /\ WantsShape(file.filterMask))
    => /\ Len(ld.shapeObjs) = Len(sv.shapesBuffers)
       /\ \A k \in 1..Len(ld.shapeObjs) :
            Framed(scene.nodes[sv.shapesBuffers[k].node], ld.shapeObjs[k])

-----------------------------------------------------------------------------
\* shapes declared before shape i that carry an embedded palette
EarlierBearers(objs, i) == { j \in 1..(i - 1) : objs[j].embeddedPalette }
FirstBearer(objs) ==
    CHOOSE j \in 1..Len(objs) :
        objs[j].embeddedPalette /\ EarlierBearers(objs, j) = {}
OthersUse(objs, i) == { objs[j].palette : j \in (1..Len(objs)) \ {i} }

SharesFirstEmbedded(objs, i) ==
    /\ objs[i].embeddedPalette
       => /\ objs[i].mode = "MULTI"
          /\ ~objs[i].paletteShared
          /\ \A j \in (1..Len(objs)) \ {i} :
                objs[j].embeddedPalette => objs[j].palette # objs[i].palette
    /\ (~objs[i].embeddedPalette /\ EarlierBearers(objs, i) # {})
       => /\ objs[i].mode = "MULTI"
          /\ objs[i].paletteShared
          /\ objs[i].palette = objs[FirstBearer(objs)].palette
    /\ (~objs[i].embeddedPalette /\ EarlierBearers(objs, i) = {})
       => /\ objs[i].mode \in {"SINGLE", "LEGACY"}
          /\ ~objs[i].paletteShared
          /\ objs[i].palette \notin OthersUse(objs, i)

\* C9 (amended): MULTI mode sharing.  A shape with an embedded SHAPE_PALETTE
\* gets that palette as its own, not shared; a shape without one that is
\* declared after a palette-bearing shape uses the palette of the first
\* palette-bearing shape of the file as a shared palette; a shape without one
\* that is declared before every palette-bearing shape shares nothing: it is
\* loaded in SINGLE or LEGACY mode with a palette of its own.
C9_SharedAfterFirstPalette ==
    Loaded => \A i \in 1..Len(ld.shapeObjs) : SharesFirstEmbedded(ld.shapeObjs, i)

\* C9 as stated: in a file where some shape has an embedded palette, every
\* shape without one, wherever it is declared, uses the palette of a
\* palette-bearing shape as a shared palette.
C9_SharedWherever ==
    (Loaded /\ \E j \in 1..Len(ld.shapeObjs) : ld.shapeObjs[j].embeddedPalette)
    => \A i \in 1..Len(ld.shapeObjs) :
          ~ld.shapeObjs[i].embeddedPalette
          => /\ ld.shapeObjs[i].mode = "MULTI"
             /\ ld.shapeObjs[i].paletteShared
             /\ ld.shapeObjs[i].palette \in OthersUse(ld.shapeObjs, i)

\* a shape declared before the first palette-bearing shape and one after it
C9_Witness ==
    /\ Loaded
    /\ Len(ld.shapeObjs) = 3
    /\ ld.shapeObjs[1].mode = "LEGACY"
    /\ ld.shapeObjs[2].embeddedPalette
    /\ ld.shapeObjs[3].paletteShared
    /\ ld.shapeObjs[3].palette = ld.shapeObjs[2].palette

-----------------------------------------------------------------------------
PaletteAssets(list) == { i \in 1..Len(list) : list[i].type = AssetType_Palette }
AssetPalettes(list) == { list[i].ptr : i \in PaletteAssets(list) }
ColorsOf(p) == { p.colors[i] : i \in 1..Len(p.colors) }

OwnPalette(objs, i) ==
    /\ ~objs[i].paletteShared
    /\ objs[i].palette # objs[i].filePalette
    /\ objs[i].palette \notin AssetPalettes(ld.list)
    /\ objs[i].palette \notin OthersUse(objs, i)

\* the shape's palette sp against the file palette fp
CopiedOrShrunk(s, sp, fp) ==
    IF color_palette_get_count(fp) < SHAPE_COLOR_INDEX_MAX_COUNT
    THEN sp.colors = fp.colors /\ sp.emissive = fp.emissive
    ELSE /\ color_palette_get_count(sp) <= Cardinality(DOMAIN s.blocks)
         /\ ColorsOf(sp) \subseteq ColorsOf(fp)
         /\ \A c \in DOMAIN s.blocks : s.blocks[c] < color_palette_get_count(sp)

SingleModeShape(objs, i) ==
    /\ (EarlierBearers(objs, i + 1) = {})
       => objs[i].mode = (IF objs[i].filePalette # NULL THEN "SINGLE" ELSE "LEGACY")
    /\ objs[i].mode = "SINGLE"
       => /\ OwnPalette(objs, i)
          /\ CopiedOrShrunk(objs[i], ld.palettes[objs[i].palette],
                            ld.palettes[objs[i].filePalette])

FilePaletteCopied(objs, i, fp) ==
    /\ ~objs[i].paletteShared
    /\ objs[i].palette \notin AssetPalettes(ld.list)
    /\ objs[i].palette \notin OthersUse(objs, i)
    /\ ld.palettes[objs[i].palette].colors = fp.colors

-----------------------------------------------------------------------------
\* C11: artist palette is standalone.  When every shape read from a file has
\* an embedded SHAPE_PALETTE and a top-level PALETTE chunk was read, the
\* file palette is in the returned list as a live Palette asset whenever the
\* filter admits palettes, and every shape is resolved in MULTI mode with the
\* palette its own envelope embeds: a palette object that is neither the file
\* palette nor a palette asset, holds exactly the embedded colors, and whose
\* block indices were not remapped through the file palette.

AllEmbedded(objs) ==
    objs # <<>> /\ \A i \in 1..Len(objs) : objs[i].embeddedPalette

StandaloneAsset(L) ==
    \E k \in 1..Len(L.list) :
        /\ L.list[k].type = AssetType_Palette
        /\ L.list[k].ptr = L.serializedPalette
        /\ ~L.palettes[L.serializedPalette].released

OwnEmbedded(L, s) ==
    /\ s.mode = "MULTI"
    /\ ~s.paletteShared
    /\ ~s.shrink
    /\ s.palette # L.serializedPalette
    /\ s.palette \notin AssetPalettes(L.list)
    /\ L.palettes[s.palette].colors = s.embeddedColors

C11_ArtistPaletteStandalone ==
    (Loaded /\ ld.serializedPalette # NULL /\ AllEmbedded(ld.shapeObjs))
    => /\ WantsPalette(file.filterMask) => StandaloneAsset(ld)
       /\ \A i \in 1..Len(ld.shapeObjs) : OwnEmbedded(ld, ld.shapeObjs[i])

\* a PALETTE chunk ahead of two shapes that each embed a palette, all assets
\* admitted
C11_Witness ==
    /\ Loaded
    /\ ~ld.error
    /\ file.filterMask = AssetType_Any
    /\ ld.serializedPalette # NULL
    /\ Len(ld.shapeObjs) = 2
    /\ AllEmbedded(ld.shapeObjs)
    /\ Len(ld.list) = 3
    /\ ld.list[1].type = AssetType_Palette
    /\ StandaloneAsset(ld)

-----------------------------------------------------------------------------
\* the chunks of a stream by the framing the format documents for their id:
\* u8 id | u32 size | u8 | u32 | payload for SHAPE and the palette chunks,
\* u8 id | u32 size | payload for every other id
DocFrameLength(buf, pos) ==
    IF At(buf, pos) \in V6SkippedIds
    THEN 1 + CHUNK_V6_HEADER_NO_ID_SIZE + RdU32(buf, pos + 1)
    ELSE 1 + 4 + RdU32(buf, pos + 1)
RECURSIVE DocFrames(_, _, _)
DocFrames(buf, pos, end) ==
    IF pos >= end \/ pos + 5 > Len(buf) \/ pos + DocFrameLength(buf, pos) > Len(buf)
    THEN <<>>
    ELSE <<pos>> \o DocFrames(buf, pos + DocFrameLength(buf, pos), end)

\* get_preview_data returned, having read a valid header
PreviewRan == pc = "previewed" /\ pv.result # "none" /\ pv.pos >= HeaderSize
PreviewFrames == DocFrames(pv.stream, HeaderSize, HeaderSize + RdU32(pv.stream, 11))
IsPreviewFrame(buf, pos) == At(buf, pos) = P3S_CHUNK_ID_PREVIEW
PreviewPayload(buf, pos) == RdBytes(buf, pos + 5, RdU32(buf, pos + 1))
\* the positions in fr of the PREVIEW chunks
PreviewsIn(buf, fr) == { k \in 1..Len(fr) : IsPreviewFrame(buf, fr[k]) }
FirstOf(S) == CHOOSE k \in S : \A j \in S : k <= j

\* the chunks ahead of frame k were skipped one by one, each by the framing
\* of its id, each skip ending on the id of the next chunk
SkippedUpTo(buf, fr, k) ==
    /\ Len(pv.skips) = k - 1
    /\ \A j \in 1..(k - 1) :
        /\ pv.skips[j].id = At(buf, fr[j])
        /\ pv.skips[j].from = fr[j]
        /\ pv.skips[j].framing = (IF At(buf, fr[j]) \in V6SkippedIds THEN "V6" ELSE "V5")
        /\ pv.skips[j].to = fr[j + 1]

PreviewReturned(buf, pos) ==
    /\ pv.result = "true"
    /\ pv.size = RdU32(buf, pos + 1)
    /\ pv.imageData = PreviewPayload(buf, pos)

KnownIdsBefore(buf, fr, k) ==
    \A j \in 1..(k - 1) : At(buf, fr[j]) \in 1..(P3S_CHUNK_ID_MAX - 1)

\* C12 (amended): preview extraction.  When every chunk ahead of the first
\* PREVIEW chunk of a file has an id in 1..24 and that PREVIEW chunk holds
\* n >= 1 bytes, the preview reader returns true with exactly those n bytes,
\* having skipped each chunk ahead of it by the framing of its id (V6 for
\* SHAPE, PALETTE, PALETTE_LEGACY and PALETTE_ID, V5 for the others) onto the
\* id of the next chunk, whether or not the skipped chunks can be
\* decompressed.  It returns false when no PREVIEW chunk starts within
\* totalSize, when a chunk with id 0 or id >= 25 comes ahead of the first
\* PREVIEW chunk, and when the first PREVIEW chunk is empty.
FirstPreviewCase(buf, fr, k) ==
    IF ~KnownIdsBefore(buf, fr, k) \/ RdU32(buf, fr[k] + 1) = 0
    THEN pv.result = "false"
    ELSE PreviewReturned(buf, fr[k]) /\ SkippedUpTo(buf, fr, k)

-----------------------------------------------------------------------------
\* both writers returned success for the scene
SavedBoth == fw.returned /\ fw.ret /\ sv.returned /\ sv.ok
ReturnedBuffer == SubSeq(sv.buf, 1, sv.outBufferSize)

\* C13 as stated: the file writer and the buffer writer agree.  For the same
\* shape tree and the same preview bytes (absent or empty previews included)
\* and no artist palette, the bytes serialization_save_shape writes to the
\* file are the bytes of the buffer serialization_v6_save_shape_as_buffer
\* returns.
C13_WritersAgree ==
    (SavedBoth /\ artistPalette.none /\ fault = NoFault) => fw.bytes = ReturnedBuffer

-----------------------------------------------------------------------------
\* C14 as stated: save error propagation.  When building or writing a chunk
\* fails during a save, the save returns failure (file writer and buffer
\* writer alike) and nothing the save allocated is left allocated.
C14_SaveErrorPropagation ==
    /\ (fw.returned /\ fw.failed) => ~fw.ret
    /\ (sv.returned /\ sv.failed) => (~sv.ok /\ sv.live = {})

-----------------------------------------------------------------------------
\* the save of a scene with no shapes returned
EmptySaved == scene.nodes = <<>> /\ previewData = <<>> /\ fw.returned /\ sv.returned
\* the file of a header alone: magic bytes, u32 6, u8 1, u32 0
HeaderOnlyFile == MAGIC_BYTES \o U32(6) \o U8(P3sCompressionMethod_ZIP) \o U32(0)

\* C15 as stated: empty scene.  Saving a scene with no shapes and no preview
\* succeeds and produces exactly the magic bytes, u32 6, u8 1, u32 0.
C15_EmptySceneSaves ==
    EmptySaved => (sv.ok /\ ReturnedBuffer = HeaderOnlyFile)

\* C15 (amended): empty scene.  A save without a shape (shape == NULL) and
\* without a preview fails in both writers: it returns false, writes no byte
\* and allocates nothing.  Loading the header alone (magic bytes, u32 6,
\* u8 1, u32 0) succeeds and returns an empty asset list.
C15_EmptyScene ==
    /\ EmptySaved => (~sv.ok /\ sv.live = {} /\ ~fw.ret /\ fw.bytes = <<>>)
    /\ (pc = "loaded" /\ ld.stream = HeaderOnlyFile)
       => (ld.result = "list" /\ ~ld.error /\ ld.list = <<>> /\ ld.iterations = 0)

C15_Witness ==
    /\ EmptySaved
    /\ ~sv.ok
    /\ pc = "loaded"
    /\ ld.stream = HeaderOnlyFile
    /\ ld.result = "list"
    /\ ld.list = <<>>

-----------------------------------------------------------------------------
SameFlags(node, s) ==
    /\ s.hidden = node.hidden
    /\ s.hasCollider = node.hasCollider
    /\ node.hasCollider => /\ s.colliderMin = node.colliderMin
                           /\ s.colliderMax = node.colliderMax

\* C16 as stated: hidden flag and custom collider.  After a save and a load
\* every shape is hidden exactly when the saved shape was, has a custom
\* collider exactly when the saved shape had one, with the saved min and max;
\* a shape saved without OBJECT_IS_HIDDEN loads with isHiddenSelf = false and
\* one saved without OBJECT_COLLISION_BOX keeps the default collider.
C16_HiddenAndCollider ==
    (RoundTrip /\ WantsShape(file.filterMask))
    => /\ Len(ld.shapeObjs) = Len(sv.shapesBuffers)
       /\ \A k \in 1..Len(ld.shapeObjs) :
            SameFlags(scene.nodes[sv.shapesBuffers[k].node], ld.shapeObjs[k])

-----------------------------------------------------------------------------
\* the asset a chunk of this id contributes under the filter
AssetTypeOf(id, filterMask) ==
    IF id = P3S_CHUNK_ID_SHAPE /\ WantsShape(filterMask) THEN <<AssetType_Shape>>
    ELSE IF id \in {P3S_CHUNK_ID_PALETTE, P3S_CHUNK_ID_PALETTE_LEGACY}
            /\ WantsPalette(filterMask)
    THEN <<AssetType_Palette>>
    ELSE <<>>
RECURSIVE ExpectedTypes(_, _, _, _)
ExpectedTypes(buf, fr, k, filterMask) ==
    IF k > Len(fr) THEN <<>>
    ELSE AssetTypeOf(At(buf, fr[k]), filterMask) \o ExpectedTypes(buf, fr, k + 1, filterMask)
LoadFrames == DocFrames(ld.stream, HeaderSize, HeaderSize + ld.totalSize)
TypesOf(list) == [i \in 1..Len(list) |-> list[i].type]
PtrsOf(list, type) ==
    LET sel == SelectSeq(list, LAMBDA a : a.type = type)
    IN  [i \in 1..Len(sel) |-> sel[i].ptr]
Increasing(seq) == \A i \in 1..(Len(seq) - 1) : seq[i] < seq[i + 1]

\* C17: asset order.  The list a load without error returns holds, in the
\* order of the chunks of the file, one Shape asset per SHAPE chunk when the
\* filter admits shapes (Any, Shape or Object) and one Palette asset per
\* PALETTE or PALETTE_LEGACY chunk when it admits palettes (Any or Palette),
\* and nothing else; the k-th Shape asset is the k-th shape declared, and the
\* Palette assets are in the order their palettes were read.
C17_AssetOrder ==
    (Loaded /\ ~ld.error)
    => /\ TypesOf(ld.list) = ExpectedTypes(ld.stream, LoadFrames, 1, ld.filterMask)
       /\ PtrsOf(ld.list, AssetType_Shape)
            = [k \in 1..Len(PtrsOf(ld.list, AssetType_Shape)) |-> k]
       /\ Increasing(PtrsOf(ld.list, AssetType_Palette))
       /\ \A i \in 1..Len(ld.list) :
            \/ ld.list[i].type = AssetType_Shape /\ WantsShape(ld.filterMask)
            \/ ld.list[i].type = AssetType_Palette /\ WantsPalette(ld.filterMask)

\* a shape, a palette and a second shape, all admitted
C17_Witness ==
    /\ Loaded
    /\ ~ld.error
    /\ ld.filterMask = AssetType_Any
    /\ TypesOf(ld.list) = <<AssetType_Shape, AssetType_Palette, AssetType_Shape>>
    /\ Len(LoadFrames) = 3

-----------------------------------------------------------------------------
\* C18 as stated: unknown sub-chunk skipping.  A sub-chunk of an id the
\* reader has no case for, framed u8 subId | u32 subSize | payload[subSize],
\* is skipped so that the sub-chunks behind it are parsed as if it were
\* absent: the file loads to the same assets as the file without it.  An envelope
\* that ends fewer than 4 bytes after such an id loads like the envelope
\* without those bytes.
C18_UnknownSubChunkSkipped ==
    (pc = "loaded" /\ file.kind \in {"subinject", "subcut"})
    => SameAssets(ld, LoadAll(file.base, file.filterMask, file.lighting))

-----------------------------------------------------------------------------
\* C19 as stated: sub-chunk order independence.  An envelope holding each
\* recognised sub-chunk at most once loads to the same shape (size, blocks,
\* palette, pivot, hidden flag, lighting) whatever the order of the
\* sub-chunks, SHAPE_BLOCKS or SHAPE_PALETTE ahead of SHAPE_SIZE included.
C19_SubChunkOrderIndependent ==
    (pc = "loaded" /\ file.kind = "perm")
    => SameAssets(ld, LoadAll(file.base, file.filterMask, file.lighting))

-----------------------------------------------------------------------------
\* C20 as stated: the palette compatibility mode is per file.  Within one
\* load all shapes are resolved under the same mode, wherever the PALETTE and
\* PALETTE_ID chunks and the first embedded SHAPE_PALETTE appear relative to
\* the SHAPE chunks.
C20_ModePerFile ==
    Loaded => \A i, j \in 1..Len(ld.shapeObjs) : ld.shapeObjs[i].mode = ld.shapeObjs[j].mode

\* the mode of the i-th shape, from what was read before the end of its chunk
ModeOf(objs, i) ==
    IF objs[i].embeddedPalette \/ EarlierBearers(objs, i) # {} THEN "MULTI"
    ELSE IF objs[i].filePalette # NULL THEN "SINGLE"
    ELSE "LEGACY"
ModeRank(mode) == CASE mode = "LEGACY" -> 1 [] mode = "SINGLE" -> 2 [] mode = "MULTI" -> 3

\* C20 (amended): the palette compatibility mode is decided per shape, in
\* stream order.  A shape is resolved in MULTI mode when it, or a shape
\* declared before it, has an embedded SHAPE_PALETTE; otherwise in SINGLE mode
\* when a PALETTE or PALETTE_LEGACY chunk was read before it; otherwise in
\* LEGACY mode.  Along the file the mode only moves from LEGACY to SINGLE to
\* MULTI.
C20_ModePerShape ==
    Loaded
    => /\ \A i \in 1..Len(ld.shapeObjs) : ld.shapeObjs[i].mode = ModeOf(ld.shapeObjs, i)
       /\ \A i, j \in 1..Len(ld.shapeObjs) :
            i < j => ModeRank(ld.shapeObjs[i].mode) <= ModeRank(ld.shapeObjs[j].mode)

\* one load with a shape in each mode
C20_Witness ==
    /\ Loaded
    /\ ~ld.error
    /\ Len(ld.shapeObjs) = 3
    /\ ld.shapeObjs[1].mode = "LEGACY"
    /\ ld.shapeObjs[2].mode = "SINGLE"
    /\ ld.shapeObjs[3].mode = "MULTI"

-----------------------------------------------------------------------------
\* the size fields of the V6 frame at the head of frame, against the payload
\* bytes that follow its header
FrameStoredSize(frame) == RdU32(frame, 1)
FrameUncompressedSize(frame) == RdU32(frame, 6)
FramePayloadLength(frame) == Len(frame) - getChunkHeaderSize(P3S_CHUNK_ID_SHAPE)
FrameConsistent(frame, lengthBefore) ==
    /\ FrameStoredSize(frame) = FramePayloadLength(frame)
    /\ FrameUncompressedSize(frame) = lengthBefore

\* the buffer save holds the buffers of its shapes
SaveHoldsBuffers == sv.returned = FALSE /\ pc \in {"save_header", "save_preview",
                                                  "save_palette", "save_shapes"}
\* the payload of the k-th shape before compression
PayloadBefore(k) ==
    uncompress(sv.shapesBuffers[k].shapeCompressedData,
               sv.shapesBuffers[k].shapeUncompressedDataSize).data

\* the frame write_chunk_in_buffer stores for the k-th shape: compressed as the
\* save calls it, or raw with the compressed size the caller has (none: 0, or
\* the size of the data it hands over)
BufferFrameCompressed(k) ==
    write_chunk_in_buffer(P3S_CHUNK_ID_SHAPE, TRUE,
                          sv.shapesBuffers[k].shapeCompressedData,
                          sv.shapesBuffers[k].shapeCompressedDataSize,
                          sv.shapesBuffers[k].shapeUncompressedDataSize)
BufferFrameRaw(k, compressedSize) ==
    write_chunk_in_buffer(P3S_CHUNK_ID_SHAPE, FALSE, PayloadBefore(k), compressedSize,
                          Len(PayloadBefore(k)))
\* the frame chunk_v6_write_file writes for the same payload
FileFrame(k, doCompress) ==
    chunk_v6_write_file(P3S_CHUNK_ID_SHAPE, Len(PayloadBefore(k)), PayloadBefore(k),
                        doCompress, FALSE).bytes

C21_WrittenFramesConsistent ==
    SaveHoldsBuffers
    => \A k \in 1..Len(sv.shapesBuffers) :
        /\ FrameConsistent(BufferFrameCompressed(k), Len(PayloadBefore(k)))
        /\ FrameConsistent(BufferFrameRaw(k, Len(PayloadBefore(k))), Len(PayloadBefore(k)))
        /\ \A doCompress \in {0, 1} :
              FrameConsistent(FileFrame(k, doCompress), Len(PayloadBefore(k)))

-----------------------------------------------------------------------------
\* the reader C22 compares with: the case P3S_CHUNK_ID_SHAPE_BAKED_LIGHTING
\* advances past u32 size | payload[size] and breaks
ReadLightingAndBreak(e, d, lightingDataSizeRead, lighting) ==
    [Advance(e, d, lightingDataSizeRead, lightingDataSizeRead) EXCEPT
        !.lightingDataSizeRead = lightingDataSizeRead,
        !.hasLightingData = e.hasLightingData \/ lighting]
ReadSubChunkClean(e, data, uncompressedSize, lighting, base) ==
    IF At(data, e.cursor) = P3S_CHUNK_ID_SHAPE_BAKED_LIGHTING
    THEN ReadLightingAndBreak(e, e.cursor + 5, RdU32(data, e.cursor + 1), lighting)
    ELSE ReadSubChunk(e, data, uncompressedSize, lighting, base)
RECURSIVE ReadSubChunksClean(_, _, _, _, _)
ReadSubChunksClean(e, data, uncompressedSize, lighting, base) ==
    IF e.totalSizeRead < uncompressedSize /\ e.steps < MaxSubChunks
    THEN ReadSubChunksClean(ReadSubChunkClean(e, data, uncompressedSize, lighting, base),
                            data, uncompressedSize, lighting, base)
    ELSE e

\* what the loop leaves to build the shape from, and the bytes it accounted
\* (the scratch locals put aside)
LoopOutcome(e) == [e EXCEPT !.cursor = 0, !.sizeRead = 0, !.steps = 0]

\* the SHAPE chunks of the loaded stream
LoadedShapeFrames ==
    ShapeFrames(ld.stream, FrameOffsets(ld.stream, HeaderSize, Len(ld.stream)))
EnvelopeRead(pos) ==
    ReadSubChunks(EnvelopeLocals(NULL, 0), EnvelopeAt(ld.stream, pos),
                  RdU32(ld.stream, pos + 6), file.lighting, 0)
EnvelopeReadClean(pos) ==
    ReadSubChunksClean(EnvelopeLocals(NULL, 0), EnvelopeAt(ld.stream, pos),
                       RdU32(ld.stream, pos + 6), file.lighting, 0)
HasLightingSubChunk(pos) == EnvelopeReadClean(pos).lightingDataSizeRead > 0

\* C22: baked-lighting handling is equivalent to a clean case with break.  For
\* every SHAPE envelope and every value of shapeSettings->lighting, the reader
\* whose SHAPE_BAKED_LIGHTING case falls through into default accounts the same
\* bytes and produces the same shape as a reader in which that case advances
\* past u32 size | payload[size] and breaks.
C22_LightingCaseEquivalent ==
    (Loaded /\ ~ld.error)
    => \A i \in 1..Len(LoadedShapeFrames) :
          LoopOutcome(EnvelopeRead(LoadedShapeFrames[i]))
          = LoopOutcome(EnvelopeReadClean(LoadedShapeFrames[i]))

\* the part of C22 that holds: an envelope whose SHAPE_BAKED_LIGHTING
\* sub-chunk is the last one (fewer than 4 bytes behind it)
LightingLast(pos) ==
    LET e == EnvelopeReadClean(pos)
    IN  /\ e.totalSizeRead = RdU32(ld.stream, pos + 6)
        /\ At(EnvelopeAt(ld.stream, pos),
              e.totalSizeRead - e.lightingDataSizeRead - 5) = P3S_CHUNK_ID_SHAPE_BAKED_LIGHTING
C22_LightingLastEquivalent ==
    (Loaded /\ ~ld.error)
    => \A i \in 1..Len(LoadedShapeFrames) :
          (HasLightingSubChunk(LoadedShapeFrames[i]) /\ LightingLast(LoadedShapeFrames[i]))
          => LoopOutcome(EnvelopeRead(LoadedShapeFrames[i]))
             = LoopOutcome(EnvelopeReadClean(LoadedShapeFrames[i]))
C22_LightingLastWitness ==
    /\ Loaded /\ ~ld.error
    /\ \E i \in 1..Len(LoadedShapeFrames) :
          /\ HasLightingSubChunk(LoadedShapeFrames[i])
          /\ LightingLast(LoadedShapeFrames[i])
          /\ ~file.lighting

-----------------------------------------------------------------------------
\* the cells of a w x h x d grid
GridCells(size) ==
    { <<x, y, z>> : x \in 0..(size[1] - 1), y \in 0..(size[2] - 1), z \in 0..(size[3] - 1) }
\* the shape's blocks lie in its grid and index colors its palette holds
BlocksValid(shape) ==
    /\ Cardinality(GridCells(shape.size)) = shape.size[1] * shape.size[2] * shape.size[3]
    /\ DOMAIN shape.blocks \subseteq GridCells(shape.size)
    /\ \A xyz \in DOMAIN shape.blocks :
          /\ shape.blocks[xyz] # SHAPE_COLOR_INDEX_AIR_BLOCK
          /\ shape.blocks[xyz] < color_palette_get_count(ld.palettes[shape.palette])

\* C23: block index validity after load.  For every file that loads without
\* error, in every loaded shape the grid has w*h*d cells and every non-AIR
\* block's color index is below the color count of the shape's palette, in
\* each of the MULTI, SINGLE, shrink and LEGACY paths.
C23_BlockIndexValid ==
    (Loaded /\ ~ld.error) => \A i \in 1..Len(ld.shapeObjs) : BlocksValid(ld.shapeObjs[i])

-----------------------------------------------------------------------------
\* the uncompressed buffer the save built for its k-th shape: its allocated
\* size and the bytes written into it
UncompressedBufferOf(k) ==
    ShapeUncompressedBuffer(scene.nodes[sv.shapesBuffers[k].node],
                            WrittenShapeId(PayloadBefore(k)),
                            WrittenParentId(PayloadBefore(k)),
                            shape_get_palette(scene.nodes[1]))

\* C24: shape envelope size accounting on write.  For every shape (with or
\* without name, points, collider, hidden flag, palette, parent) the
\* uncompressedSize computed by chunk_v6_shape_create_and_write_uncompressed_buffer
\* equals the number of bytes written into the buffer, so that the envelope
\* has no unwritten trailing byte and ends at the end of the last sub-chunk
\* written.
C24_EnvelopeSizeAccounting ==
    SaveHoldsBuffers
    => \A k \in 1..Len(sv.shapesBuffers) :
          /\ UncompressedBufferOf(k).uncompressedSize
             = sv.shapesBuffers[k].shapeUncompressedDataSize
          /\ UncompressedBufferOf(k).written = UncompressedBufferOf(k).uncompressedSize

\* the part of C24 that holds: the shapes without a name
C24_UnnamedSizeAccounting ==
    SaveHoldsBuffers
    => \A k \in 1..Len(sv.shapesBuffers) :
          /\ UncompressedBufferOf(k).uncompressedSize
             = sv.shapesBuffers[k].shapeUncompressedDataSize
          /\ UncompressedBufferOf(k).written
             = UncompressedBufferOf(k).uncompressedSize
               - (IF NameLen(scene.nodes[sv.shapesBuffers[k].node]) > 0 THEN 4 ELSE 0)

-----------------------------------------------------------------------------
\* the sub-chunk loop followed from the locals e: at the start of each
\* iteration the cursor is totalSizeRead bytes into the envelope; when the loop
\* ends the cursor has not moved beyond uncompressedSize and the block array
\* processed after the loop lies inside the envelope
RECURSIVE CursorAgreesFrom(_, _, _, _)
CursorAgreesFrom(e, data, uncompressedSize, lighting) ==
    IF e.totalSizeRead < uncompressedSize /\ e.steps < MaxSubChunks
    THEN /\ e.cursor = e.totalSizeRead
         /\ CursorAgreesFrom(ReadSubChunk(e, data, uncompressedSize, lighting, 0),
                             data, uncompressedSize, lighting)
    ELSE /\ e.cursor <= uncompressedSize
         /\ (e.shapeBlocksCursor # -1 /\ e.shapeMade)
            => e.shapeBlocksCursor + 4 + e.width * e.height * e.depth <= uncompressedSize
CursorAgrees(pos) ==
    CursorAgreesFrom(EnvelopeLocals(NULL, 0), EnvelopeAt(ld.stream, pos),
                     RdU32(ld.stream, pos + 6), file.lighting)

\* C25: cursor/counter agreement in the sub-chunk loop.  For every envelope
\* content, at the start of each iteration the cursor's offset in the envelope
\* equals totalSizeRead and the cursor never reads at or beyond
\* uncompressedSize, a fixed-layout sub-chunk that declares a subSize other
\* than its fixed payload length included.
C25_CursorCounterAgreement ==
    (Loaded /\ ~ld.error)
    => \A i \in 1..Len(LoadedShapeFrames) : CursorAgrees(LoadedShapeFrames[i])

\* the part of C25 that holds: the envelopes whose sub-chunks are framed
\* u8 id | u32 size | payload[size] with the size the reader expects, without
\* SHAPE_BAKED_LIGHTING and unknown ids
C25_WellFormedAgreement ==
    (Loaded /\ ~ld.error /\ file.kind \in {"mode", "parent"})
    => \A i \in 1..Len(LoadedShapeFrames) : CursorAgrees(LoadedShapeFrames[i])

-----------------------------------------------------------------------------
\* the chunks of the loaded stream that are read with chunk_v6_read, and what
\* it returns for the chunk framed at pos
IsV6Frame(pos) ==
    At(ld.stream, pos) \in {P3S_CHUNK_ID_PALETTE, P3S_CHUNK_ID_PALETTE_LEGACY,
                            P3S_CHUNK_ID_PALETTE_ID, P3S_CHUNK_ID_SHAPE}
LoadedV6Frames ==
    SelectSeq(FrameOffsets(ld.stream, HeaderSize, Len(ld.stream)), IsV6Frame)
ChunkReadAt(pos) == chunk_v6_read([ld EXCEPT !.pos = pos + 1])
\* the bytes of the returned buffer that hold payload: the bytes read from the
\* stream (raw), the bytes zlib produced (compressed)
PayloadBytes(pos) ==
    IF At(ld.stream, pos + 5) # 0
    THEN Len(uncompress(RdBytes(ld.stream, pos + 1 + CHUNK_V6_HEADER_NO_ID_SIZE,
                                RdU32(ld.stream, pos + 1)),
                        RdU32(ld.stream, pos + 6)).data)
    ELSE RdU32(ld.stream, pos + 1)

\* C26: chunk_v6_read payload length.  Whenever chunk_v6_read returns true,
\* the uncompressedSize it reports equals the number of payload bytes in the
\* buffer it returns, for raw chunks (the buffer holds storedSize bytes) and
\* for compressed chunks (zlib may produce fewer bytes than the header's
\* uncompressedSize).
C26_ReportedSizeIsPayloadLength ==
    Loaded
    => \A i \in 1..Len(LoadedV6Frames) :
          ChunkReadAt(LoadedV6Frames[i]).ok
          => ChunkReadAt(LoadedV6Frames[i]).uncompressedSize
             = PayloadBytes(LoadedV6Frames[i])

\* the part of C26 that holds: the size reported is the uncompressedSize field
\* of the header, which is the payload length for the chunks the writers
\* produce
C26_ReportedSizeIsHeaderField ==
    Loaded
    => \A i \in 1..Len(LoadedV6Frames) :
          ChunkReadAt(LoadedV6Frames[i]).ok
          => /\ ChunkReadAt(LoadedV6Frames[i]).uncompressedSize
                = RdU32(ld.stream, LoadedV6Frames[i] + 6)
             /\ file.kind = "scene"
                => ChunkReadAt(LoadedV6Frames[i]).uncompressedSize
                   = PayloadBytes(LoadedV6Frames[i])

-----------------------------------------------------------------------------
\* the palette asset points to a palette the loader has not released
LiveAsset(asset) == asset.ptr # NULL /\ ~ld.palettes[asset.ptr].released

\* C27: returned palette assets are live.  Every Palette asset of the list the
\* load returns points to a non-null palette that the loader has not released,
\* files with two or more PALETTE / PALETTE_LEGACY chunks and files with a
\* palette chunk that fails to read included.
C27_PaletteAssetsLive ==
    Loaded => \A i \in PaletteAssets(ld.list) : LiveAsset(ld.list[i])

\* the part of C27 that holds: the last Palette asset of a load without error
C27_LastPaletteAssetLive ==
    (Loaded /\ ~ld.error)
    => \A i \in PaletteAssets(ld.list) :
          (\A j \in PaletteAssets(ld.list) : j <= i) => LiveAsset(ld.list[i])

-----------------------------------------------------------------------------
\* C28: LEGACY-branch assertion.  Whenever chunk_v6_read_shape reaches the
\* LEGACY branch, paletteID differs from PALETTE_ID_CUSTOM, i.e. the vx_assert
\* of that branch never fails, files whose PALETTE_ID chunk carries an
\* arbitrary byte included.
C28_LegacyAssertion == Loaded => ~ld.assertFailed

\* the part of C28 that holds: the files without a PALETTE_ID chunk carrying
\* PALETTE_ID_CUSTOM ahead of a shape read in the LEGACY branch
C28_AssertionWithoutCustomId ==
    (Loaded /\ ld.assertFailed)
    => \E i \in 1..Len(LoadFrames) :
          /\ At(ld.stream, LoadFrames[i]) = P3S_CHUNK_ID_PALETTE_ID
          /\ At(ld.stream, LoadFrames[i] + 1 + CHUNK_V6_HEADER_NO_ID_SIZE) = PALETTE_ID_CUSTOM

-----------------------------------------------------------------------------
\* the load loop is running, or has ended
InLoadLoop == pc = "load_loop" \/ Loaded
\* bytes consumed from the stream since the end of the header
BytesConsumed == ld.pos - HeaderSize

\* C29: the top-level load loop terminates for every finite stream and every
\* totalSize (it runs at most once per byte of the stream behind the header,
\* and once more), and after each chunk processed without error totalSizeRead
\* equals the number of bytes consumed from the stream since the end of the
\* header (the counts followed stay below 2^32).
C29_LoopTerminatesAndAccounts ==
    InLoadLoop
    => /\ ld.iterations <= Len(ld.stream) - HeaderSize + 1
       /\ ld.iterations < MaxChunks
       /\ ~ld.error => ld.totalSizeRead = BytesConsumed

\* the part of C29 that holds: termination.  Every iteration that does not set
\* the error flag consumes at least the byte of the chunk id, so the loop runs
\* at most once per byte of the stream behind the header, and once more.
C29_LoopTerminates ==
    InLoadLoop
    => /\ ld.iterations <= Len(ld.stream) - HeaderSize + 1
       /\ ld.iterations < MaxChunks
       /\ ld.pos <= Len(ld.stream)
       /\ ~ld.error => ld.iterations <= BytesConsumed

-----------------------------------------------------------------------------
\* serialization_v6_save_shape_as_buffer returned true
BufferSaved == sv.returned /\ sv.ok

\* C30: output buffer exactly filled.  In
\* serialization_v6_save_shape_as_buffer, for every shape tree and every
\* combination of preview and artist palette, the size computed before the
\* allocation equals the final write cursor: no write past the buffer, no
\* allocated byte left unwritten.
C30_BufferExactlyFilled ==
    BufferSaved
    => /\ sv.cursor = sv.size
       /\ sv.outBufferSize = sv.size
       /\ Len(sv.buf) = sv.size
       /\ \A i \in 1..Len(sv.buf) : sv.buf[i] # UNWRITTEN

\* saves of a tree of three shapes with a preview and an artist palette, and
\* of a single shape with neither
C30_Witness ==
    /\ BufferSaved
    /\ Len(sv.shapesBuffers) = 3
    /\ sv.hasPreview
    /\ sv.hasArtistPalette
    /\ sv.size > HeaderSize
C30_WitnessPlain ==
    /\ BufferSaved
    /\ Len(sv.shapesBuffers) = 1
    /\ ~sv.hasPreview
    /\ ~sv.hasArtistPalette

====
